---- MODULE Spec2Model ----
(***************************************************************************)
(* Device-bound session authority of SecVideo (secvideo-api).              *)
(*                                                                         *)
(* The persisted state is the Users, Devices, Sessions and SecurityEvents  *)
(* tables of AppDbContext; hub is the in-memory state of SessionHub, the   *)
(* registry of connections.  Every handler runs on a DbContext of its own: *)
(* each awaited database round trip is one step of the handler, a read     *)
(* leaves a snapshot of the rows in the handler's change tracker, and      *)
(* SaveChanges writes, in one transaction, exactly the columns whose       *)
(* current value differs from that snapshot.                               *)
(*                                                                         *)
(* A step is an operator from (tables, handler record) to (tables, handler *)
(* record).  Spec interleaves the steps of the handlers in flight; the     *)
(* sequential specifications run every handler to completion in one        *)
(* transition.  watch names the operations whose response, with the        *)
(* sessions as they were before the call, a specification keeps in the     *)
(* handler's slot until the slot serves the next request; watch never      *)
(* changes and no handler reads it.                                        *)
(*                                                                         *)
(* client is the web client of one browser tab (secvideo-web): the auth    *)
(* store and the session manager with the sockets it has created.  The     *)
(* specifications of the server leave it as it starts; SpecClient runs it  *)
(* against every answer the server may give.                               *)
(***************************************************************************)
EXTENDS Integers, Sequences, FiniteSets, TLC

VARIABLES users, devices, sessions, nextDid, nextSid, now, ticks, req, watch,
          events, hub, client

vars == <<users, devices, sessions, nextDid, nextSid, now, ticks, req, watch,
          events, hub, client>>

(***************************** bounds *************************************)
\* Session rows ever inserted.
MaxSessions == 2
\* Device rows ever inserted.
MaxDevices == 2
\* Clock advances.
MaxTicks == 1
\* SecurityEvent rows ever inserted.
MaxEvents == 2
\* Connections the channel ever accepts.
MaxConns == 2
\* Sockets the web client's session manager ever creates.
MaxSockets == 3

(************************ program constants *******************************)
\* DateTime.UtcNow.AddMinutes(15): lifetime of a verification code, minutes.
CodeTtlMinutes == 15
\* DateTime.UtcNow.AddDays(7): lifetime of a session, days.
SessionTtlDays == 7
\* random.Next(100000, 999999): inclusive lower, exclusive upper bound.
CodeLow == 100000
CodeHighExcl == 999999

SessionTtl == SessionTtlDays * 24 * 60

UserIds == {"u1", "u2"}
NoUser == "-"
Hashes == {"h1", "h2"}
Roles == {"Student", "Instructor", "Admin"}
Reasons == {"policy", "abuse"}
\* Slot 0 serves the sequential specifications; the other two slots are the
\* two handlers that race in Spec.
Slots == {1, 2}
AllSlots == {0} \cup Slots

(*************************** nullable values ******************************)
Null == <<>>
Some(x) == <<x>>
\* A comparison that never finds a DateTime? in the past.
NeverLt(a, t) == FALSE

\* C# lifted comparison on DateTime?: false when the left operand is null.
LiftedLt(a, t) == a # Null /\ a[1] < t

(************************** verification code *****************************)
RECURSIVE ToDigits(_)
\* int.ToString(): the decimal digits of a non-negative integer.
ToDigits(n) == IF n < 10 THEN <<n>> ELSE Append(ToDigits(n \div 10), n % 10)

\* The outputs of GenerateVerificationCode the model draws from: both ends
\* of the range of random.Next(100000, 999999).
GenerateVerificationCode == {ToDigits(CodeLow), ToDigits(CodeHighExcl - 1)}

\* The values of request.Code a verification request may carry.
RequestCodes == {Null} \cup {Some(c) : c \in GenerateVerificationCode}

(******************************* rows *************************************)
NoRows == [x \in {} |-> 0]

\* A device row that is born verified.
NewTrustedDevice(id, u, h, c, t) ==
    [id |-> id, userId |-> u, hash |-> h, verified |-> TRUE,
     code |-> Some(c), codeExpiry |-> Some(t + CodeTtlMinutes),
     verifiedAt |-> Null, lastSeenAt |-> t]

\* The Device of lines 43-51, created at t.
NewDevice(id, u, h, c, t) ==
    [id |-> id, userId |-> u, hash |-> h, verified |-> FALSE,
     code |-> Some(c), codeExpiry |-> Some(t + CodeTtlMinutes),
     verifiedAt |-> Null, lastSeenAt |-> t]

NewSession(id, u, d, t) ==
    [id |-> id, userId |-> u, deviceId |-> d, isActive |-> TRUE,
     lastHeartbeat |-> t, expiresAt |-> t + SessionTtl,
     terminationReason |-> Null, terminatedAt |-> Null]

\* The tables, as one value.
Tables ==
    [users |-> users, devices |-> devices, sessions |-> sessions,
     nextDid |-> nextDid, nextSid |-> nextSid, events |-> events, hub |-> hub]

\* user.Device of a query with Include(u => u.Device): the row or null.
DeviceOf(db, u) ==
    IF \E d \in DOMAIN db.devices : db.devices[d].userId = u
    THEN Some(db.devices[CHOOSE d \in DOMAIN db.devices : db.devices[d].userId = u])
    ELSE Null

\* A SaveChanges that writes every column of the tracked entity.
SaveWholeRow(cur, orig, new) == new

\* SaveChanges on one tracked entity: UPDATE ... SET only the columns whose
\* current value differs from the snapshot taken when the row was read.
SaveRow(cur, orig, new) ==
    [f \in DOMAIN cur |-> IF new[f] # orig[f] THEN new[f] ELSE cur[f]]

\* A deactivation that records no termination time.
DeactivatedUnstamped(row, reason, t) ==
    [row EXCEPT !.isActive = FALSE, !.terminationReason = Some(reason)]

\* The deactivation every terminating handler applies to a tracked session.
Deactivated(row, reason, t) ==
    [row EXCEPT !.isActive = FALSE, !.terminatedAt = Some(t),
                !.terminationReason = Some(reason)]

(************************** handler records *******************************)
IdleReq ==
    [op |-> "none", pc |-> "idle", u |-> NoUser, s |-> 0, h |-> "-",
     code |-> Null, reason |-> "-", role |-> "-", target |-> NoUser,
     active |-> FALSE, dev |-> Null, sess |-> NoRows, at |-> 0, res |-> "-",
     sid |-> 0, pre |-> Null, video |-> "-", key |-> Null, preDev |-> Null,
     pwOk |-> FALSE, culture |-> "-", event |-> <<>>, conn |-> 0, sent |-> <<>>,
     was |-> Null]

\* A request as it arrives: pc names the handler's first step.
Request(op, u, s, h) ==
    [IdleReq EXCEPT !.op = op, !.pc = op, !.u = u, !.s = s, !.h = h]

\* The inputs a handler draws while it runs: the code the generator returns,
\* the outcome of BCrypt.Verify, the outcome of the video checks, whether
\* the logger delivers a critical entry.
Inputs(c, pwOk, videoOk, alertOk) ==
    [c |-> c, pwOk |-> pwOk, videoOk |-> videoOk, alertOk |-> alertOk]

Out(db, rec) == [db |-> db, rec |-> rec]
To(db, rec, pc) == Out(db, [rec EXCEPT !.pc = pc])
Done(db, rec, res) == Out(db, [rec EXCEPT !.pc = "done", !.res = res])

\* Clients.Client(to).SendAsync(name, new { reason }) and, with to the
\* handler's own connection, Clients.Caller.SendAsync: the message joins
\* those the handler has pushed.
Send(rec, to, name, reason) ==
    [rec EXCEPT !.sent = Append(@, [to |-> to, name |-> name, reason |-> reason])]

(************************* AuthService.LoginAsync *************************)
\* Lines 24-36 and the branch taken at 39, 64, 82.
Login_Read(db, rec, t, pwOk) ==
    LET u == rec.u
        dev == DeviceOf(db, u)
        r1 == [rec EXCEPT !.at = t, !.pwOk = pwOk]
    IN  IF u \notin DOMAIN db.users \/ ~pwOk
        THEN Done(db, r1, "401 Invalid email or password")
        ELSE IF ~db.users[u].isActive
        THEN Done(db, r1, "401 Account is disabled")
        ELSE IF dev = Null
        THEN To(db, r1, "login_insert")
        ELSE IF dev[1].hash # rec.h
        THEN To(db, [r1 EXCEPT !.dev = dev], "login_rearm")
        ELSE IF ~dev[1].verified
        THEN Done(db, r1, "challenge")
        ELSE To(db, [r1 EXCEPT !.dev = dev], "create_read")

\* An INSERT into a Devices table that has no unique index on UserId.
Login_InsertUnchecked(db, rec, c) ==
    IF rec.u \notin DOMAIN db.users
    THEN Done(db, rec, "500")
    ELSE Done([db EXCEPT
                 !.devices = [d \in DOMAIN db.devices \cup {db.nextDid} |->
                                IF d = db.nextDid
                                THEN NewDevice(db.nextDid, rec.u, rec.h, c, rec.at)
                                ELSE db.devices[d]],
                 !.nextDid = db.nextDid + 1],
              rec, "challenge")

\* Lines 42-60: first login, INSERT of the device.  The unique index on
\* Devices.UserId and the foreign key to Users reject the INSERT.
Login_Insert(db, rec, c) ==
    LET u == rec.u IN
    IF DeviceOf(db, u) # Null \/ u \notin DOMAIN db.users
    THEN Done(db, rec, "500")
    ELSE Done([db EXCEPT
                 !.devices = [d \in DOMAIN db.devices \cup {db.nextDid} |->
                                IF d = db.nextDid
                                THEN NewDevice(db.nextDid, u, rec.h, c, rec.at)
                                ELSE db.devices[d]],
                 !.nextDid = db.nextDid + 1],
              rec, "challenge")

\* A re-arming that keeps the stored fingerprint.
RearmedKeepingHash(row, h, c, t) ==
    [row EXCEPT !.verified = FALSE, !.code = Some(c),
                !.codeExpiry = Some(t + CodeTtlMinutes), !.verifiedAt = Null]

\* The device as lines 68-72 leave the tracked entity.
Rearmed(row, h, c, t) ==
    [row EXCEPT !.hash = h, !.verified = FALSE, !.code = Some(c),
                !.codeExpiry = Some(t + CodeTtlMinutes), !.verifiedAt = Null]

\* SaveChanges of the one device a handler tracks, changed to new.
SaveDevice(db, rec, new) ==
    [db EXCEPT !.devices[rec.dev[1].id] = SaveRow(@, rec.dev[1], new)]

DeviceGone(db, rec) == rec.dev[1].id \notin DOMAIN db.devices

\* Lines 66-79: login from another fingerprint re-arms the device.
Login_Rearm(db, rec, c) ==
    IF DeviceGone(db, rec)
    THEN Done(db, rec, "500")
    ELSE Done(SaveDevice(db, rec, Rearmed(rec.dev[1], rec.h, c, rec.at)),
              rec, "challenge")

\* The LoginResponse a finished login or verify-device returns: line 60, 79
\* and 86 (the challenge, with the temp token of the user) and lines 300-309
\* (the access token with the user and session claims, the session id).
LoginResponse(rec) ==
    IF rec.res = "challenge"
    THEN [token |-> Null, sessionId |-> Null, requiresDeviceVerification |-> TRUE,
          tempToken |-> Some(rec.u)]
    ELSE [token |-> Some(<<rec.u, rec.sid>>), sessionId |-> Some(rec.sid),
          requiresDeviceVerification |-> FALSE, tempToken |-> Null]

(****************** AuthService.CreateSessionAndReturnResponse ************)
\* A query that finds no session to deactivate.
NoExistingSessions(db, u) == {}

\* The rows the query of lines 268-270 returns.
ExistingSessions(db, u) ==
    {x \in DOMAIN db.sessions : db.sessions[x].userId = u /\ db.sessions[x].isActive}

\* Lines 268-270: read of the user's active sessions.
Create_Read(db, rec, t) ==
    To(db, [rec EXCEPT !.sess = [x \in ExistingSessions(db, rec.u) |-> db.sessions[x]],
                       !.at = t],
       "create_write")

\* SaveChanges of the sessions a handler tracks, each deactivated.
DeactivateTracked(db, rec, reason) ==
    [x \in DOMAIN db.sessions |->
        IF x \in DOMAIN rec.sess
        THEN SaveRow(db.sessions[x], rec.sess[x], Deactivated(rec.sess[x], reason, rec.at))
        ELSE db.sessions[x]]

\* Lines 272-298: one SaveChanges deactivates the sessions read and inserts
\* the new one.
Create_Write(db, rec) ==
    IF rec.u \notin DOMAIN db.users \/ ~(DOMAIN rec.sess \subseteq DOMAIN db.sessions)
    THEN Done(db, rec, "500")
    ELSE LET old == DeactivateTracked(db, rec, "New login from same device") IN
         Done([db EXCEPT
                 !.sessions = [x \in DOMAIN old \cup {db.nextSid} |->
                                 IF x = db.nextSid
                                 THEN NewSession(db.nextSid, rec.u, rec.dev[1].id, rec.at)
                                 ELSE old[x]],
                 !.nextSid = db.nextSid + 1],
              [rec EXCEPT !.sid = db.nextSid], "200")

(********************** AuthService.VerifyDeviceAsync *********************)
\* Lines 128-151: rec.u is the user id ValidateTempToken finds in the temp
\* token (NoUser when it returns null); the user is read with its device;
\* rec.code is request.Code (null when the field is absent).
Verify_Read(db, rec, t) ==
    LET u == rec.u
        dev == DeviceOf(db, u)
        r1 == [rec EXCEPT !.at = t]
    IN  IF u = NoUser
        THEN Done(db, r1, "401 Invalid or expired verification token")
        ELSE IF u \notin DOMAIN db.users \/ dev = Null
        THEN Done(db, r1, "401 User or device not found")
        ELSE IF dev[1].code # rec.code
        THEN Done(db, r1, "401 Invalid verification code")
        ELSE IF LiftedLt(dev[1].codeExpiry, t)
        THEN Done(db, r1, "401 Verification code has expired")
        ELSE To(db, [r1 EXCEPT !.dev = dev], "verify_write")

\* A verification that keeps the fingerprint stored at login.
VerifiedKeepingHash(row, h, t) ==
    [row EXCEPT !.verified = TRUE, !.verifiedAt = Some(t), !.code = Null,
                !.codeExpiry = Null, !.lastSeenAt = t]

\* The device as lines 154-163 leave the tracked entity.
Verified(row, h, t) ==
    [row EXCEPT !.verified = TRUE, !.verifiedAt = Some(t), !.code = Null,
                !.codeExpiry = Null, !.hash = h, !.lastSeenAt = t]

\* Line 165: SaveChanges of the verified device; CreateSession follows.
Verify_Write(db, rec) ==
    IF DeviceGone(db, rec)
    THEN Done(db, rec, "500")
    ELSE To(SaveDevice(db, rec, Verified(rec.dev[1], rec.h, rec.at)), rec, "create_read")

(****************** AuthService.ResendVerificationCodeAsync ***************)
\* Lines 248-255.
Resend_Read(db, rec, t) ==
    LET dev == DeviceOf(db, rec.u) IN
    IF rec.u \notin DOMAIN db.users \/ dev = Null
    THEN Done(db, [rec EXCEPT !.at = t], "User or device not found")
    ELSE To(db, [rec EXCEPT !.dev = dev, !.at = t], "resend_write")

\* Lines 257-261.
Resend_Write(db, rec, c) ==
    IF DeviceGone(db, rec)
    THEN Done(db, rec, "500")
    ELSE Done(SaveDevice(db, rec,
                         [rec.dev[1] EXCEPT !.code = Some(c),
                                            !.codeExpiry = Some(rec.at + CodeTtlMinutes)]),
              rec, "200")

(********************* AuthService.ValidateSessionAsync *******************)
\* AuthController.ValidateSession, lines 129-134: the HTTP answer to the
\* service's Valid flag.
ValidateAnswer(valid) == IF valid THEN "200" ELSE "401 SESSION_EXPIRED"

\* A device check that compares the fingerprint and does not ask whether
\* the device is verified.
DeviceRejectedByHashOnly(dev, h) == dev = Null \/ dev[1].hash # h

\* Line 182: user.Device?.FingerprintHash != deviceHash || !user.Device.IsVerified
DeviceRejected(dev, h) == dev = Null \/ dev[1].hash # h \/ ~dev[1].verified

\* Lines 172-185: the user is read with its device.
Validate_Read(db, rec, t) ==
    LET u == rec.u
        dev == DeviceOf(db, u)
        r1 == [rec EXCEPT !.at = t]
    IN  IF u \notin DOMAIN db.users \/ ~db.users[u].isActive
        THEN Done(db, r1, ValidateAnswer(FALSE))
        ELSE IF DeviceRejected(dev, rec.h)
        THEN Done(db, r1, ValidateAnswer(FALSE))
        ELSE To(db, [r1 EXCEPT !.dev = dev], "validate_session")

\* A query that leaves the owner out of the filter.
ActiveSessionOfAnyone(db, u, s) ==
    IF s \in DOMAIN db.sessions /\ db.sessions[s].isActive
    THEN Some(db.sessions[s])
    ELSE Null

\* The row the query of lines 188-189 returns, or null.
ActiveSessionOf(db, u, s) ==
    IF s \in DOMAIN db.sessions /\ db.sessions[s].userId = u /\ db.sessions[s].isActive
    THEN Some(db.sessions[s])
    ELSE Null

\* Line 191: the session is refused as expired at time t.
Expired(row, t) == row.expiresAt < t

\* The handler tracks the one session it found.
Track(rec, found, t) == [rec EXCEPT !.sess = [x \in {rec.s} |-> found[1]], !.at = t]

\* Lines 188-194: read of the session and the expiry check.
Validate_Session(db, rec, t) ==
    LET found == ActiveSessionOf(db, rec.u, rec.s) IN
    IF found = Null \/ Expired(found[1], t)
    THEN Done(db, [rec EXCEPT !.at = t], ValidateAnswer(FALSE))
    ELSE To(db, Track(rec, found, t), "validate_write")

\* A save of the stamps that also moves the expiry of the session forward.
SaveStampsSliding(db, rec) ==
    [db EXCEPT
       !.sessions[rec.s] =
           SaveRow(@, rec.sess[rec.s],
                   [rec.sess[rec.s] EXCEPT !.lastHeartbeat = rec.at,
                                           !.expiresAt = rec.at + SessionTtl]),
       !.devices[rec.dev[1].id] =
           SaveRow(@, rec.dev[1], [rec.dev[1] EXCEPT !.lastSeenAt = rec.at])]

\* SaveChanges of the heartbeat stamp of the tracked session and the
\* last-seen stamp of the tracked device.
SaveStamps(db, rec) ==
    [db EXCEPT
       !.sessions[rec.s] =
           SaveRow(@, rec.sess[rec.s], [rec.sess[rec.s] EXCEPT !.lastHeartbeat = rec.at]),
       !.devices[rec.dev[1].id] =
           SaveRow(@, rec.dev[1], [rec.dev[1] EXCEPT !.lastSeenAt = rec.at])]

\* Lines 197-201.
Validate_Write(db, rec) ==
    IF rec.s \notin DOMAIN db.sessions \/ DeviceGone(db, rec)
    THEN Done(db, rec, "500")
    ELSE Done(SaveStamps(db, rec), rec, ValidateAnswer(TRUE))

(*************** the handlers that read one session and save it ***********)
\* FindAsync(sessionId): the row with that key, or null.
FindSession(db, s) == IF s \in DOMAIN db.sessions THEN Some(db.sessions[s]) ELSE Null

\* A logout query that leaves the owner out of the filter.
FindSessionOfAnyone(db, u, s) ==
    IF s \in DOMAIN db.sessions THEN Some(db.sessions[s]) ELSE Null

\* LogoutAsync, lines 206-207: the row with that key and that owner.
FindOwnSession(db, u, s) ==
    IF s \in DOMAIN db.sessions /\ db.sessions[s].userId = u
    THEN Some(db.sessions[s])
    ELSE Null

\* SaveChanges of the one session a handler tracks, changed to new.
SaveSession(db, rec, new, res) ==
    IF rec.s \notin DOMAIN db.sessions
    THEN Done(db, rec, "500")
    ELSE Done([db EXCEPT !.sessions[rec.s] = SaveRow(@, rec.sess[rec.s], new)], rec, res)

\* AuthService.LogoutAsync, lines 206-209.
Logout_Read(db, rec, t) ==
    LET found == FindOwnSession(db, rec.u, rec.s) IN
    IF found = Null
    THEN Done(db, [rec EXCEPT !.at = t], "200")
    ELSE To(db, Track(rec, found, t), "logout_write")

\* AuthService.LogoutAsync, lines 211-214.
Logout_Write(db, rec) ==
    SaveSession(db, rec, Deactivated(rec.sess[rec.s], "User logout", rec.at), "200")

\* AuthService.TerminateSessionAsync, lines 220-221.
Terminate_Read(db, rec, t) ==
    LET found == FindSession(db, rec.s) IN
    IF found = Null
    THEN Done(db, [rec EXCEPT !.at = t], "ok")
    ELSE To(db, Track(rec, found, t), "terminate_write")

\* AuthService.TerminateSessionAsync, lines 223-226.
Terminate_Write(db, rec) ==
    SaveSession(db, rec, Deactivated(rec.sess[rec.s], rec.reason, rec.at), "ok")

\* AuthService.UpdateHeartbeatAsync, lines 232-233.
Touch_Read(db, rec, t) ==
    LET found == FindSession(db, rec.s) IN
    IF found # Null /\ found[1].isActive
    THEN To(db, Track(rec, found, t), "touch_write")
    ELSE Done(db, [rec EXCEPT !.at = t], "ok")

\* AuthService.UpdateHeartbeatAsync, lines 235-236.
Touch_Write(db, rec) ==
    SaveSession(db, rec, [rec.sess[rec.s] EXCEPT !.lastHeartbeat = rec.at], "ok")

\* A heartbeat that acknowledges every session that still has a row.
Heartbeat_ReadAnyState(db, rec, t) ==
    LET found == FindSession(db, rec.s) IN
    IF rec.s = 0
    THEN Done(db, [rec EXCEPT !.at = t], "ignored")
    ELSE IF found # Null
    THEN To(db, Track(rec, found, t), "heartbeat_write")
    ELSE Done(db, Send([rec EXCEPT !.at = t], rec.conn, "session:killed",
                       "Session expired or invalidated"),
              "session:killed")

\* SessionHub.Heartbeat, lines 67-71 and 78-82; rec.s is the session_id
\* claim of the connection, 0 when the claim is absent (GetSessionId returns
\* null), and rec.conn the caller's connection.
Heartbeat_Read(db, rec, t) ==
    LET found == FindSession(db, rec.s) IN
    IF rec.s = 0
    THEN Done(db, [rec EXCEPT !.at = t], "ignored")
    ELSE IF found # Null /\ found[1].isActive
    THEN To(db, Track(rec, found, t), "heartbeat_write")
    ELSE Done(db, Send([rec EXCEPT !.at = t], rec.conn, "session:killed",
                       "Session expired or invalidated"),
              "session:killed")

\* A heartbeat that saves the stamp and pushes nothing.
Heartbeat_WriteSilent(db, rec) ==
    SaveSession(db, rec, [rec.sess[rec.s] EXCEPT !.lastHeartbeat = rec.at],
                "heartbeat:ack")

\* SessionHub.Heartbeat, lines 73-76: the push follows a SaveChanges that
\* succeeded.
Heartbeat_Write(db, rec) ==
    LET o == SaveSession(db, rec, [rec.sess[rec.s] EXCEPT !.lastHeartbeat = rec.at],
                         "heartbeat:ack")
    IN  IF o.rec.res = "500"
        THEN o
        ELSE Out(o.db, Send(o.rec, rec.conn, "heartbeat:ack", "-"))

\* A kill_session that does not look at the caller's role.
Kill_ReadAnyRole(db, rec, t) ==
    LET found == FindSession(db, rec.s) IN
    IF found = Null
    THEN Done(db, [rec EXCEPT !.at = t], "not found")
    ELSE To(db, Track(rec, found, t), "kill_write")

\* SessionHub.KillSession, lines 171-175; rec.role is the caller's role claim.
Kill_Read(db, rec, t) ==
    LET found == FindSession(db, rec.s) IN
    IF rec.role # "Admin"
    THEN Done(db, [rec EXCEPT !.at = t], "ignored")
    ELSE IF found = Null
    THEN Done(db, [rec EXCEPT !.at = t], "not found")
    ELSE To(db, Track(rec, found, t), "kill_write")

\* A kill_session that answers the administrator instead of the target.
Kill_WriteToCaller(db, rec) ==
    LET o == SaveSession(db, rec, Deactivated(rec.sess[rec.s], rec.reason, rec.at),
                         "killed")
    IN  IF o.rec.res = "500"
        THEN o
        ELSE Out(o.db, Send(o.rec, rec.conn, "session:killed", rec.reason))

\* SessionHub.KillSession, lines 177-187: the save, then the push to the
\* connection the registry holds for the owner of the session.
Kill_Write(db, rec) ==
    LET o == SaveSession(db, rec, Deactivated(rec.sess[rec.s], rec.reason, rec.at),
                         "killed")
        entry == o.db.hub.registry[rec.sess[rec.s].userId]
    IN  IF o.rec.res = "500" \/ entry = Null
        THEN o
        ELSE Out(o.db, Send(o.rec, entry[1], "session:killed", rec.reason))

(**************** SessionHub: the registry of connections *****************)
\* _userConnections (line 15) is hub.registry; hub.conns lists the
\* connections in the order the channel accepted them, each with the claims
\* of its bearer token and whether it is open: OnConnectedAsync has
\* returned and OnDisconnectedAsync has not started.  A token without the
\* user id claim has u = NoUser, one without session_id has s = 0.  Every
\* operation on the dictionary is one step.

\* A connect that notifies nobody.
Connect_ReadSilent(db, rec, t) ==
    LET accepted == [db EXCEPT !.hub.conns =
                        Append(@, [u |-> rec.u, s |-> rec.s, role |-> rec.role,
                                   open |-> FALSE])]
    IN  IF rec.u = NoUser \/ rec.s = 0
        THEN Done([accepted EXCEPT !.hub.conns[rec.conn].open = TRUE], rec, "connected")
        ELSE To(accepted, rec, "connect_write")

\* OnConnectedAsync, lines 25-37.
Connect_Read(db, rec, t) ==
    LET accepted == [db EXCEPT !.hub.conns =
                        Append(@, [u |-> rec.u, s |-> rec.s, role |-> rec.role,
                                   open |-> FALSE])]
        existing == IF rec.u = NoUser THEN Null ELSE db.hub.registry[rec.u]
    IN  IF rec.u = NoUser \/ rec.s = 0
        THEN Done([accepted EXCEPT !.hub.conns[rec.conn].open = TRUE], rec, "connected")
        ELSE IF existing # Null /\ existing[1] # rec.conn
        THEN To(accepted, Send(rec, existing[1], "session:another_login", "-"),
                "connect_write")
        ELSE To(accepted, rec, "connect_write")

\* OnConnectedAsync, lines 41-45.
Connect_Write(db, rec) ==
    Done([db EXCEPT !.hub.registry[rec.u] = Some(rec.conn),
                    !.hub.conns[rec.conn].open = TRUE], rec, "connected")

\* A disconnect that leaves the registry as it is.
Disconnect_ReadKeepsEntry(db, rec, t) ==
    Done([db EXCEPT !.hub.conns[rec.conn].open = FALSE], rec, "disconnected")

\* OnDisconnectedAsync, lines 50-55.
Disconnect_Read(db, rec, t) ==
    LET closed == [db EXCEPT !.hub.conns[rec.conn].open = FALSE] IN
    IF rec.u # NoUser /\ db.hub.registry[rec.u] = Some(rec.conn)
    THEN To(closed, rec, "disconnect_remove")
    ELSE Done(closed, rec, "disconnected")

\* OnDisconnectedAsync, line 57.
Disconnect_Remove(db, rec) ==
    Done([db EXCEPT !.hub.registry[rec.u] = Null], rec, "disconnected")

\* AdminController.TerminateSession, lines 173-174; rec.reason is
\* request?.Reason ?? "Terminated by admin".
AdminTerminate_Read(db, rec, t) ==
    LET found == FindSession(db, rec.s) IN
    IF found = Null
    THEN Done(db, [rec EXCEPT !.at = t], "404")
    ELSE To(db, Track(rec, found, t), "admin_terminate_write")

\* AdminController.TerminateSession, lines 176-181.
AdminTerminate_Write(db, rec) ==
    SaveSession(db, rec, Deactivated(rec.sess[rec.s], rec.reason, rec.at), "200")

(******************** AdminController.ResetUserDevice *********************)
\* Line 283: read of the user's device.
Reset_Read(db, rec, t) ==
    To(db, [rec EXCEPT !.dev = DeviceOf(db, rec.u), !.at = t], "reset_sessions")

\* Lines 290-292: read of the user's active sessions.
Reset_Sessions(db, rec, t) ==
    To(db, [rec EXCEPT !.sess = [x \in ExistingSessions(db, rec.u) |-> db.sessions[x]],
                       !.at = t],
       "reset_write")

\* Lines 284-301: one SaveChanges deletes the device and deactivates the
\* sessions read.
Reset_Write(db, rec) ==
    IF \/ ~(DOMAIN rec.sess \subseteq DOMAIN db.sessions)
       \/ (rec.dev # Null /\ DeviceGone(db, rec))
    THEN Done(db, rec, "500")
    ELSE Done([db EXCEPT
                 !.sessions = DeactivateTracked(db, rec, "Device reset by admin"),
                 !.devices = [d \in DOMAIN db.devices \
                                      (IF rec.dev = Null THEN {} ELSE {rec.dev[1].id})
                                |-> db.devices[d]]],
              rec, "200")

(************************ AdminController: users **************************)
\* UpdateUser, lines 120-131; rec.active is request.IsActive.
UpdateUser_Write(db, rec) ==
    IF rec.target \notin DOMAIN db.users
    THEN Done(db, rec, "404")
    ELSE Done([db EXCEPT !.users[rec.target].isActive = rec.active], rec, "200")

\* DeleteUser, lines 138-143; the device, the sessions and the security
\* events go with the user (DeleteBehavior.Cascade).
DeleteUser_Write(db, rec) ==
    LET OfOthers(e) == e.userId # rec.target IN
    IF rec.target \notin DOMAIN db.users
    THEN Done(db, rec, "404")
    ELSE Done([db EXCEPT
                 !.events = SelectSeq(@, OfOthers),
                 !.users = [x \in DOMAIN db.users \ {rec.target} |-> db.users[x]],
                 !.devices = [d \in {x \in DOMAIN db.devices :
                                        db.devices[x].userId # rec.target}
                                |-> db.devices[d]],
                 !.sessions = [s \in {x \in DOMAIN db.sessions :
                                         db.sessions[x].userId # rec.target}
                                 |-> db.sessions[s]]],
              rec, "204")

(****************** StreamController.ValidateStreamAccess *****************)
\* The row the query of lines 170-171 (and of GetPlaybackData, 395-396)
\* returns, or null: the owner is not part of the filter.
AnyActiveSession(db, s) ==
    IF s \in DOMAIN db.sessions /\ db.sessions[s].isActive
    THEN Some(db.sessions[s])
    ELSE Null

\* Lines 160-176: read of the session and the expiry check; rec.u and rec.s
\* are the claims of the bearer token, rec.h the X-Device-Hash header.
Stream_Read(db, rec, t) ==
    LET found == AnyActiveSession(db, rec.s) IN
    IF found = Null \/ Expired(found[1], t)
    THEN Done(db, [rec EXCEPT !.at = t], "401 Session expired")
    ELSE To(db, Track(rec, found, t), "stream_user")

\* user?.Device of lines 179-183 and 386-390.
DeviceOfUser(db, u) == IF u \in DOMAIN db.users THEN DeviceOf(db, u) ELSE Null

\* Lines 179-211: the user is read with its device; videoOk is the outcome
\* of the video, retention and enrollment checks.
Stream_User(db, rec, t, videoOk) ==
    LET dev == DeviceOfUser(db, rec.u) IN
    IF DeviceRejected(dev, rec.h)
    THEN Done(db, [rec EXCEPT !.at = t], "401 Device verification required")
    ELSE IF ~videoOk
    THEN Done(db, [rec EXCEPT !.at = t], "401 Video")
    ELSE To(db, [rec EXCEPT !.dev = dev, !.at = t], "stream_write")

\* Lines 214-218: the stamps; the endpoint then serves the manifest, the
\* key, the segment or the subtitle.
Stream_Write(db, rec) ==
    IF rec.s \notin DOMAIN db.sessions \/ DeviceGone(db, rec)
    THEN Done(db, rec, "500")
    ELSE Done(SaveStamps(db, rec), rec, "200")

(******************** StreamController.GetEncryptionKey *******************)
VideoIds == {"v1", "v2"}

\* The values of _configuration["Jwt:SecretKey"] the model draws from; the
\* second one contains the separator of the key material.
Secrets == {<<"k">>, <<"-", "k">>}

\* The value configured on this server.
JwtSecretKey == <<"-", "k">>

\* Size of the AES-128 key, bytes.
KeyBytes == 16

\* The Guids the model ids stand for, as numbers: users, videos, sessions.
UserGuid(u) == CASE u = "u1" -> 1 [] u = "u2" -> 2
VideoGuid(v) == CASE v = "v1" -> 3 [] v = "v2" -> 4
SessionGuid(s) == 10 + s

\* Guid.ToString() of the Guid with number n: 32 digits, zero-filled, in
\* groups of 8, 4, 4, 4 and 12, hyphenated.
GuidText(n) ==
    LET ds == ToDigits(n)
        digit == <<"0", "1", "2", "3", "4", "5", "6", "7", "8", "9">>
        d == [i \in 1..32 |->
                IF i <= 32 - Len(ds) THEN "0" ELSE digit[ds[i - (32 - Len(ds))] + 1]]
    IN
    SubSeq(d, 1, 8) \o <<"-">> \o SubSeq(d, 9, 12) \o <<"-">> \o SubSeq(d, 13, 16)
      \o <<"-">> \o SubSeq(d, 17, 20) \o <<"-">> \o SubSeq(d, 21, 32)

\* A key material that leaves the session id out.
KeyMaterialWithoutSession(v, u, s, secret) ==
    GuidText(VideoGuid(v)) \o <<"-">> \o GuidText(UserGuid(u)) \o <<"-">> \o secret

\* Line 82: $"{videoId}-{userId}-{sessionId}-{secret}".
KeyMaterial(v, u, s, secret) ==
    GuidText(VideoGuid(v)) \o <<"-">> \o GuidText(UserGuid(u)) \o <<"-">>
      \o GuidText(SessionGuid(s)) \o <<"-">> \o secret

\* SHA256 of a text, the digest taken as collision-free: the digest of a
\* text stands for that text and no other.
Sha256(text) == <<"SHA256", text>>

\* Lines 82-86: the first KeyBytes bytes of the digest of the key material.
DeriveKey(v, u, s, secret) == <<"first", KeyBytes, Sha256(KeyMaterial(v, u, s, secret))>>

\* Lines 71-90: after ValidateStreamAccess has accepted, the key endpoint
\* answers with the key derived from the claims of the token.
GetEncryptionKey_Key(o) ==
    IF o.rec.op = "key" /\ o.rec.pc = "done" /\ o.rec.res = "200"
    THEN Out(o.db, [o.rec EXCEPT !.key = Some(DeriveKey(o.rec.video, o.rec.u, o.rec.s,
                                                       JwtSecretKey))])
    ELSE o

(******************** VideosController.GetPlaybackData ********************)
\* Lines 376-393 of AdminController.cs: the user is read with its device.
Playback_Read(db, rec, t) ==
    IF DeviceRejected(DeviceOfUser(db, rec.u), rec.h)
    THEN Done(db, [rec EXCEPT !.at = t], "401 DEVICE_MISMATCH")
    ELSE To(db, [rec EXCEPT !.at = t], "playback_session")

\* Lines 395-450: read of the session, then the video, retention and
\* enrollment checks (videoOk); nothing is written.
Playback_Session(db, rec, t, videoOk) ==
    IF AnyActiveSession(db, rec.s) = Null
    THEN Done(db, [rec EXCEPT !.at = t], "401 SESSION_EXPIRED")
    ELSE IF ~videoOk
    THEN Done(db, [rec EXCEPT !.at = t], "4xx Video")
    ELSE Done(db, [rec EXCEPT !.at = t], "200")

(********************** SessionHub.DetermineSeverity **********************)
\* Texts are sequences of characters.
Letters ==
    [upper |-> <<"A", "B", "C", "D", "E", "F", "G", "H", "I", "J", "K", "L", "M", "N", "O", "P", "Q", "R", "S", "T", "U", "V", "W", "X", "Y", "Z">>,
     lower |-> <<"a", "b", "c", "d", "e", "f", "g", "h", "i", "j", "k", "l", "m", "n", "o", "p", "q", "r", "s", "t", "u", "v", "w", "x", "y", "z">>]

\* CultureInfo.CurrentCulture of the thread that runs the hub method: a
\* culture with the invariant casing rules, or one with the Turkish rules.
Cultures == {"invariant", "tr-TR"}

\* char.ToLower under a culture: the Turkish rules take the capital I to the
\* dotless small letter (U+0131), written "dotless i" here.
LowerChar(culture, ch) ==
    IF \E k \in 1..26 : Letters.upper[k] = ch
    THEN IF culture = "tr-TR" /\ ch = "I"
         THEN "dotless i"
         ELSE Letters.lower[CHOOSE k \in 1..26 : Letters.upper[k] = ch]
    ELSE ch

\* String.ToLower(): the casing rules of the current culture, character by
\* character.
ToLower(culture, text) == [k \in 1..Len(text) |-> LowerChar(culture, text[k])]

\* The event types the switch of lines 207-212 names, and one the web client
\* sends that the switch does not name.
EventText ==
    [DevtoolsOpened |->
        <<"d", "e", "v", "t", "o", "o", "l", "s", "_", "o", "p", "e", "n", "e", "d">>,
     DevtoolsConsoleDetected |->
        <<"d", "e", "v", "t", "o", "o", "l", "s", "_", "c", "o", "n", "s", "o", "l", "e", "_", "d", "e", "t", "e", "c", "t", "e", "d">>,
     ScreenshotAttempt |->
        <<"s", "c", "r", "e", "e", "n", "s", "h", "o", "t", "_", "a", "t", "t", "e", "m", "p", "t">>,
     ScreenCaptureAttempted |->
        <<"s", "c", "r", "e", "e", "n", "_", "c", "a", "p", "t", "u", "r", "e", "_", "a", "t", "t", "e", "m", "p", "t", "e", "d">>,
     DebuggerDetected |->
        <<"d", "e", "b", "u", "g", "g", "e", "r", "_", "d", "e", "t", "e", "c", "t", "e", "d">>,
     PrintScreenAttempt |->
        <<"p", "r", "i", "n", "t", "_", "s", "c", "r", "e", "e", "n", "_", "a", "t", "t", "e", "m", "p", "t">>,
     TimeDriftDetected |->
        <<"t", "i", "m", "e", "_", "d", "r", "i", "f", "t", "_", "d", "e", "t", "e", "c", "t", "e", "d">>]

\* Lines 203-215.
DetermineSeverity(culture, eventType) ==
    LET t == ToLower(culture, eventType) IN
    CASE t = EventText.DevtoolsOpened -> "Warning"
      [] t = EventText.DevtoolsConsoleDetected -> "Warning"
      [] t = EventText.ScreenshotAttempt -> "Warning"
      [] t = EventText.ScreenCaptureAttempted -> "Critical"
      [] t = EventText.DebuggerDetected -> "Critical"
      [] t = EventText.PrintScreenAttempt -> "Warning"
      [] OTHER -> "Info"

\* SessionHub.ReportSecurityEvent, lines 87-113.  The INSERT of line 107
\* carries the foreign key of SecurityEvents.UserId (AppDbContext, lines
\* 166-169): it fails when the Users row is gone.  alertOk is whether
\* LogCritical of line 112 returns.
ReportSecurityEvent(db, rec, t, alertOk) ==
    LET severity == DetermineSeverity(rec.culture, rec.event)
        saved == [db EXCEPT !.events =
                     Append(@, [userId |-> rec.u,
                                sessionId |-> IF rec.s = 0 THEN Null ELSE Some(rec.s),
                                eventType |-> rec.event, severity |-> severity,
                                createdAt |-> t])]
    IN  IF rec.u = NoUser
        THEN Done(db, rec, "ignored")
        ELSE IF rec.u \notin DOMAIN db.users
        THEN Done(db, rec, "DbUpdateException")
        ELSE IF severity = "Critical" /\ ~alertOk
        THEN Done(saved, rec, "alert failed")
        ELSE Done(saved, rec, "ok")

(************************* web client: apiClient ***************************)
\* The HTTP response a content or validation handler returns, as the web
\* client sees it: the status and the code field of the body.
\* GetPlaybackData answers a failed device or session check with
\* Unauthorized(new { message, code }) (AdminController.cs, lines 390-401),
\* a failed video check with 404, 410 or 403 without a body code;
\* AuthController.ValidateSession answers Unauthorized with SESSION_EXPIRED
\* (line 131); the stream endpoints answer Unauthorized(new { message })
\* (StreamController, lines 71-75).
HttpResponse(res) ==
    CASE res = "401 DEVICE_MISMATCH" -> [status |-> 401, code |-> Some("DEVICE_MISMATCH")]
      [] res = "401 SESSION_EXPIRED" -> [status |-> 401, code |-> Some("SESSION_EXPIRED")]
      [] res \in {"401 Session expired", "401 Device verification required",
                  "401 Video"} -> [status |-> 401, code |-> Null]
      [] res = "4xx Video" -> [status |-> 404, code |-> Null]
      [] res = "500" -> [status |-> 500, code |-> Null]
      [] OTHER -> [status |-> 200, code |-> Null]

\* The response interceptor of apiClient.ts, lines 52-78, on a response that
\* is an error: the page it assigns to window.location.href (null when it
\* assigns none) and whether it removes auth-storage.
ResponseInterceptor(resp) ==
    IF resp.status = 401
    THEN [location |-> Some("/login"), cleared |-> TRUE]
    ELSE IF resp.status = 403 /\ resp.code = Some("DEVICE_MISMATCH")
    THEN [location |-> Some("/device-verify"), cleared |-> FALSE]
    ELSE IF resp.status = 403 /\ resp.code = Some("SESSION_EXPIRED")
    THEN [location |-> Some("/login?expired=true"), cleared |-> TRUE]
    ELSE [location |-> Null, cleared |-> FALSE]

(******************** web client: store and session manager ****************)
\* The auth store before anyone signs in (authStore.ts, lines 19-28).
initialState ==
    [user |-> Null, token |-> Null, deviceId |-> Null, sessionId |-> Null,
     isAuthenticated |-> FALSE, isDeviceVerified |-> FALSE, isLoading |-> FALSE,
     error |-> Null]

\* The client when the page has loaded for the first time: the store in its
\* initial state, the session manager with socket and heartbeatInterval null
\* (sessionManager.ts, lines 14-16; socket 0 stands for null), no socket
\* created yet, and no store action called.  sockets lists the sockets io()
\* has returned, each with the state of its transport and whether the
\* manager's listeners are attached to it.
ClientStart ==
    [store |-> initialState, socket |-> 0, sockets |-> <<>>, heartbeat |-> FALSE,
     last |-> [op |-> "none", resp |-> "-", ret |-> "-", was |-> initialState]]

\* The store after a sign-in the server accepted (authStore.ts, lines 54-63
\* and 89-98).
SignedIn ==
    [user |-> Some("u1"), token |-> Some("access"), deviceId |-> Some("d"),
     sessionId |-> Some("s"), isAuthenticated |-> TRUE, isDeviceVerified |-> TRUE,
     isLoading |-> FALSE, error |-> Null]

\* sessionManager.ts, lines 117-122.
stopHeartbeat(c) == [c EXCEPT !.heartbeat = FALSE]

\* sessionManager.ts, lines 101-112: the timer is replaced, never doubled.
startHeartbeat(c) == [stopHeartbeat(c) EXCEPT !.heartbeat = TRUE]

\* sessionManager.ts, lines 176-178.
isConnected(c) == c.socket # 0 /\ c.sockets[c.socket].state = "connected"

\* sessionManager.ts, lines 23-40: nothing when the current socket is
\* connected; otherwise a new socket is created and assigned to this.socket,
\* and setupEventListeners attaches the listeners to it.  A socket the field
\* held before is neither closed nor stripped of its listeners.
connect(c) ==
    IF isConnected(c)
    THEN c
    ELSE [c EXCEPT !.sockets = Append(@, [state |-> "connecting", listeners |-> TRUE]),
                   !.socket = Len(c.sockets) + 1]

\* sessionManager.ts, lines 160-171.
disconnect(c) ==
    LET stopped == stopHeartbeat(c)
    IN  IF stopped.socket # 0
        THEN [stopped EXCEPT !.sockets[stopped.socket] =
                                 [state |-> "closed", listeners |-> FALSE],
                             !.socket = 0]
        ELSE stopped

\* sessionManager.ts, lines 127-136.
handleSessionKilled(c) == disconnect(c)

\* authStore.ts, lines 35-75, on the answer resp of the server.
login(c, resp) ==
    CASE resp = "challenge" ->
             [c EXCEPT !.store = [@ EXCEPT !.isLoading = FALSE, !.error = Null,
                                           !.isDeviceVerified = FALSE,
                                           !.token = Some("temp"), !.user = Null,
                                           !.isAuthenticated = FALSE]]
      [] resp = "ok" -> connect([c EXCEPT !.store = SignedIn])
      [] OTHER -> [c EXCEPT !.store.error = Some("Login failed"),
                            !.store.isLoading = FALSE]

\* authStore.ts, lines 77-110.
verifyDevice(c, resp) ==
    IF c.store.token = Null
    THEN [c EXCEPT !.store.error = Some("No temporary token found")]
    ELSE IF resp = "ok"
    THEN connect([c EXCEPT !.store = SignedIn])
    ELSE [c EXCEPT !.store.error = Some("Device verification failed"),
                   !.store.isLoading = FALSE]

\* logout() as it would be if a failed server call ended it.
logoutWhenServerAgrees(c, resp) ==
    IF resp = "ok" THEN [disconnect(c) EXCEPT !.store = initialState] ELSE c

\* authStore.ts, lines 112-127: the answer of the server is ignored
\* (authApi.ts, lines 80-86, swallows the error as well).
logout(c, resp) == [disconnect(c) EXCEPT !.store = initialState]

\* authStore.ts, lines 129-159: the client afterwards and the value
\* returned.
checkSession(c, resp) ==
    IF c.store.token = Null \/ ~c.store.isAuthenticated
    THEN [c |-> c, ret |-> "false"]
    ELSE IF resp = "valid"
    THEN LET set == [c EXCEPT !.store.user = Some("u1")]
         IN  [c |-> IF ~isConnected(set) THEN connect(set) ELSE set, ret |-> "true"]
    ELSE [c |-> logout(c, resp), ret |-> "false"]

\* The page is loaded again: the store is restored from the fields
\* partialize persists (authStore.ts, lines 164-174), the sockets of the
\* page that went away are closed, and the session manager is constructed
\* anew.
reload(c) ==
    [c EXCEPT !.store = [@ EXCEPT !.isLoading = FALSE, !.error = Null],
              !.sockets = [i \in DOMAIN @ |-> [state |-> "closed", listeners |-> FALSE]],
              !.socket = 0, !.heartbeat = FALSE]

\* The answers the server may give to the request of a store action.
Answers(op) ==
    CASE op = "login" -> {"challenge", "ok", "error"}
      [] op = "verifyDevice" -> {"ok", "error"}
      [] op = "logout" -> {"ok", "error"}
      [] op = "checkSession" -> {"valid", "invalid", "error"}
      [] OTHER -> {"-"}

\* The client after the store action op has run to its end with the answer
\* resp, and the value the action returned.
Acted(c, op, resp) ==
    CASE op = "login" -> [c |-> login(c, resp), ret |-> "-"]
      [] op = "verifyDevice" -> [c |-> verifyDevice(c, resp), ret |-> "-"]
      [] op = "logout" -> [c |-> logout(c, resp), ret |-> "-"]
      [] op = "checkSession" -> checkSession(c, resp)
      [] OTHER -> [c |-> reload(c), ret |-> "-"]

(******************************* steps ************************************)
\* The step a handler at rec.pc takes next.
Step(db, rec, t, in) ==
    CASE rec.pc = "login" -> Login_Read(db, rec, t, in.pwOk)
      [] rec.pc = "login_insert" -> Login_Insert(db, rec, in.c)
      [] rec.pc = "login_rearm" -> Login_Rearm(db, rec, in.c)
      [] rec.pc = "create_read" -> Create_Read(db, rec, t)
      [] rec.pc = "create_write" -> Create_Write(db, rec)
      [] rec.pc = "verify" -> Verify_Read(db, rec, t)
      [] rec.pc = "verify_write" -> Verify_Write(db, rec)
      [] rec.pc = "resend" -> Resend_Read(db, rec, t)
      [] rec.pc = "resend_write" -> Resend_Write(db, rec, in.c)
      [] rec.pc = "validate" -> Validate_Read(db, rec, t)
      [] rec.pc = "validate_session" -> Validate_Session(db, rec, t)
      [] rec.pc = "validate_write" -> Validate_Write(db, rec)
      [] rec.pc = "logout" -> Logout_Read(db, rec, t)
      [] rec.pc = "logout_write" -> Logout_Write(db, rec)
      [] rec.pc = "terminate" -> Terminate_Read(db, rec, t)
      [] rec.pc = "terminate_write" -> Terminate_Write(db, rec)
      [] rec.pc = "touch" -> Touch_Read(db, rec, t)
      [] rec.pc = "touch_write" -> Touch_Write(db, rec)
      [] rec.pc = "heartbeat" -> Heartbeat_Read(db, rec, t)
      [] rec.pc = "heartbeat_write" -> Heartbeat_Write(db, rec)
      [] rec.pc = "kill" -> Kill_Read(db, rec, t)
      [] rec.pc = "kill_write" -> Kill_Write(db, rec)
      [] rec.pc = "admin_terminate" -> AdminTerminate_Read(db, rec, t)
      [] rec.pc = "admin_terminate_write" -> AdminTerminate_Write(db, rec)
      [] rec.pc = "reset" -> Reset_Read(db, rec, t)
      [] rec.pc = "reset_sessions" -> Reset_Sessions(db, rec, t)
      [] rec.pc = "reset_write" -> Reset_Write(db, rec)
      [] rec.pc = "update_user" -> UpdateUser_Write(db, rec)
      [] rec.pc = "delete_user" -> DeleteUser_Write(db, rec)
      [] rec.pc = "stream" -> Stream_Read(db, rec, t)
      [] rec.pc = "stream_user" -> Stream_User(db, rec, t, in.videoOk)
      [] rec.pc = "stream_write" -> GetEncryptionKey_Key(Stream_Write(db, rec))
      [] rec.pc = "playback" -> Playback_Read(db, rec, t)
      [] rec.pc = "playback_session" -> Playback_Session(db, rec, t, in.videoOk)
      [] rec.pc = "connect" -> Connect_Read(db, rec, t)
      [] rec.pc = "connect_write" -> Connect_Write(db, rec)
      [] rec.pc = "disconnect" -> Disconnect_Read(db, rec, t)
      [] rec.pc = "disconnect_remove" -> Disconnect_Remove(db, rec)
      [] rec.pc = "event" -> ReportSecurityEvent(db, rec, t, in.alertOk)

RECURSIVE Run(_, _, _, _)
\* The handler run to its return, nothing else running in between.
Run(db, rec, t, in) ==
    IF rec.pc = "done"
    THEN Out(db, rec)
    ELSE LET o == Step(db, rec, t, in) IN Run(o.db, o.rec, t, in)

(****************************** transitions *******************************)
\* The seeded database: the users exist and are enabled, nobody has logged in.
Seeded ==
    /\ users = [u \in UserIds |-> [isActive |-> TRUE]]
    /\ devices = NoRows
    /\ sessions = NoRows
    /\ nextDid = 1
    /\ nextSid = 1
    /\ now = 0
    /\ ticks = 0
    /\ req = [r \in AllSlots |-> IdleReq]
    /\ events = <<>>
    /\ hub = [registry |-> [u \in UserIds |-> Null], conns |-> <<>>]
    /\ client = ClientStart

Init == Seeded /\ watch = {}

\* The tables become db; the table bounds hold.
Commit(db) ==
    /\ db.nextDid <= MaxDevices + 1
    /\ db.nextSid <= MaxSessions + 1
    /\ Len(db.events) <= MaxEvents
    /\ users' = db.users
    /\ devices' = db.devices
    /\ sessions' = db.sessions
    /\ nextDid' = db.nextDid
    /\ nextSid' = db.nextSid
    /\ events' = db.events
    /\ hub' = db.hub

\* What stays in the slot of a handler that has taken a step: the handler
\* itself while it runs, its response when it returns and is watched.
Slot(rec) ==
    IF rec.pc # "done" THEN rec
    ELSE IF rec.op \in watch THEN [rec EXCEPT !.dev = Null, !.sess = NoRows]
    ELSE IdleReq

\* Slot r accepts a request and takes its first step.  A request goes to the
\* first free slot.  Handlers between their first read and their INSERT of a
\* row hold back further requests once the table bound is committed.
Start(r, rec, in) ==
    /\ req[r].pc \in {"idle", "done"}
    /\ \A q \in Slots : q < r => req[q].pc \notin {"idle", "done"}
    /\ nextDid + Cardinality({q \in AllSlots : req[q].pc = "login_insert"}) <= MaxDevices
    /\ nextSid + Cardinality({q \in AllSlots :
                                req[q].pc \in {"verify_write", "create_read",
                                               "create_write"}}) <= MaxSessions
    /\ LET o == Step(Tables, rec, now, in) IN
         /\ Commit(o.db)
         /\ req' = [req EXCEPT ![r] = Slot(o.rec)]
    /\ UNCHANGED <<now, ticks, watch, client>>

\* The handler in slot r, at step pc, takes that step.
Resume(r, pc, in) ==
    /\ req[r].pc = pc
    /\ LET o == Step(Tables, req[r], now, in) IN
         /\ Commit(o.db)
         /\ req' = [req EXCEPT ![r] = Slot(o.rec)]
    /\ UNCHANGED <<now, ticks, watch, client>>

\* A request is served from its arrival to its response, alone.
Call(rec, in) ==
    /\ LET o == Run(Tables, [rec EXCEPT !.pre = IF rec.op \in watch
                                                 THEN Some(sessions) ELSE Null,
                                         !.preDev = IF rec.op \in watch
                                                    THEN Some(devices) ELSE Null,
                                         !.was = IF rec.op \in watch
                                                 THEN Some([events |-> events,
                                                            hub |-> hub])
                                                 ELSE Null],
                    now, in)
       IN  /\ Commit(o.db)
           /\ req' = [req EXCEPT ![0] = Slot(o.rec)]
    /\ UNCHANGED <<now, ticks, watch, client>>

(********************************* time ***********************************)
\* The instants at which some stored expiry starts to matter.
Expiries ==
    {sessions[s].expiresAt : s \in DOMAIN sessions}
      \cup {devices[d].codeExpiry[1] :
              d \in {x \in DOMAIN devices : devices[x].codeExpiry # Null}}

\* DateTime.UtcNow advances: by a minute, to a stored expiry, or just past it.
Tick ==
    /\ ticks < MaxTicks
    /\ \E t \in {now + 1} \cup Expiries \cup {e + 1 : e \in Expiries} :
          t > now /\ now' = t
    /\ ticks' = ticks + 1
    /\ UNCHANGED <<users, devices, sessions, nextDid, nextSid, req, watch, events, hub,
                   client>>

(******************************* requests *********************************)
\* Session ids a request may carry: those issued so far.
Issued == 1..(nextSid - 1)

NoIn == Inputs(<<>>, FALSE, FALSE, TRUE)

\* The user id claim of the access token issued with session s (line 300 of
\* AuthService.cs): the owner of the row; of a row deleted with its user no
\* owner is left on record, the token may be any user's.
TokenUser(s) == IF s \in DOMAIN sessions THEN {sessions[s].userId} ELSE UserIds
\* The access tokens in circulation: the user id and session id claims.
Tokens == {p \in UserIds \X Issued : p[1] \in TokenUser(p[2])}

\* The claims of the verification-scope token a challenged login returns
\* (IJwtService.GenerateTempToken(userId)): the user id, no session id (0),
\* no role ("-").  JwtService itself is not among the sources; the token is
\* taken to pass the bearer authentication of the channel.
TempClaims(U) == {<<u, 0, "-">> : u \in {x \in U : nextDid > 1}}

\* The requests clients may send to an operation; U is the set of users the
\* requests name.  A connection presents the claims of an access token
\* (user id, session id, the role of a student or of an administrator) or
\* those of a verification-scope token; the channel numbers its connections
\* in the order it accepts them; a message on the channel comes from an open
\* connection, with its claims.  The security events are three of the names
\* the web client sends, one of each severity, classified under the
\* invariant culture (SpecSeverity covers the other names and cultures).
Requests(op, U) ==
    LET Message(name, c) ==
            [Request(name, hub.conns[c].u, hub.conns[c].s, "-") EXCEPT
                !.conn = c, !.role = hub.conns[c].role]
        Open == {c \in DOMAIN hub.conns :
                    hub.conns[c].open /\ hub.conns[c].u \in U}
        Claims == {k \in U \X Issued \X {"Student", "Admin"} :
                      k[1] \in TokenUser(k[2])} \cup TempClaims(U)
    IN
    CASE op = "connect" ->
            {[Request("connect", k[1], k[2], "-") EXCEPT
                !.conn = Len(hub.conns) + 1, !.role = k[3]] :
                k \in {x \in Claims : Len(hub.conns) < MaxConns}}
      [] op = "disconnect" -> {Message("disconnect", c) : c \in Open}
      [] op = "message:heartbeat" -> {Message("heartbeat", c) : c \in Open}
      [] op = "message:kill_session" ->
            {[Message("kill", c) EXCEPT !.s = s, !.reason = reason] :
                c \in Open, s \in Issued, reason \in Reasons}
      [] op = "message:security:event" ->
            {[Message("event", c) EXCEPT !.event = e, !.culture = "invariant"] :
                c \in Open,
                e \in {EventText.DebuggerDetected, EventText.DevtoolsOpened,
                       EventText.TimeDriftDetected}}
      [] op = "login" -> {Request("login", u, 0, h) : u \in U, h \in Hashes}
      [] op = "verify" ->
            {[Request("verify", u, 0, h) EXCEPT !.code = code] :
                u \in U, h \in Hashes, code \in RequestCodes}
      [] op = "resend" -> {Request("resend", u, 0, "-") : u \in U}
      [] op = "validate" ->
            {Request("validate", u, s, h) : u \in U, s \in Issued, h \in Hashes}
      [] op = "logout" -> {Request("logout", u, s, "-") : u \in U, s \in Issued}
      [] op = "terminate" ->
            {[Request("terminate", NoUser, s, "-") EXCEPT !.reason = reason] :
                s \in Issued, reason \in Reasons}
      [] op = "touch" -> {Request("touch", NoUser, s, "-") : s \in Issued}
      [] op = "heartbeat" -> {Request("heartbeat", NoUser, s, "-") : s \in Issued}
      [] op = "kill" ->
            {[Request("kill", NoUser, s, "-") EXCEPT !.reason = reason, !.role = role] :
                s \in Issued, reason \in Reasons, role \in Roles}
      [] op = "admin_terminate" ->
            {[Request("admin_terminate", NoUser, s, "-") EXCEPT !.reason = reason] :
                s \in Issued, reason \in Reasons \cup {"Terminated by admin"}}
      [] op = "reset" -> {Request("reset", u, 0, "-") : u \in U}
      [] op = "update_user" ->
            {[Request("update_user", NoUser, 0, "-") EXCEPT !.target = u, !.active = a] :
                u \in U, a \in BOOLEAN}
      [] op = "delete_user" ->
            {[Request("delete_user", NoUser, 0, "-") EXCEPT !.target = u] : u \in U}
      [] op = "stream" -> {Request("stream", p[1], p[2], h) : p \in Tokens, h \in Hashes}
      [] op = "playback" ->
            {Request("playback", p[1], p[2], h) : p \in Tokens, h \in Hashes}
      [] op = "key" ->
            {[Request("stream", p[1], p[2], h) EXCEPT !.op = "key", !.video = v] :
                p \in Tokens, h \in Hashes, v \in VideoIds}

\* The inputs the handler step at pc draws: the outcome of BCrypt.Verify and
\* the generated code, the generated code alone, the outcome of the video
\* checks, whether the critical log entry is delivered, or nothing.
InputsAt(pc) ==
    CASE pc = "login" ->
            {Inputs(c, pwOk, FALSE, TRUE) : c \in GenerateVerificationCode, pwOk \in BOOLEAN}
      [] pc \in {"login_insert", "login_rearm", "resend"} ->
            {Inputs(c, FALSE, FALSE, TRUE) : c \in GenerateVerificationCode}
      [] pc \in {"stream", "playback", "key"} ->
            {Inputs(<<>>, FALSE, ok, TRUE) : ok \in BOOLEAN}
      [] pc = "message:security:event" ->
            {Inputs(<<>>, FALSE, FALSE, ok) : ok \in BOOLEAN}
      [] OTHER -> {NoIn}

(***************************** specifications *****************************)
\* Spec: two handlers race on the rows of one user.
RaceUsers == {"u1"}

Next ==
    \E r \in Slots :
        \/ \E q \in Requests("login", RaceUsers), in \in InputsAt("login") : Start(r, q, in)
        \/ \E in \in InputsAt("login_insert") : Resume(r, "login_insert", in)
        \/ \E in \in InputsAt("login_rearm") : Resume(r, "login_rearm", in)
        \/ Resume(r, "create_read", NoIn)
        \/ Resume(r, "create_write", NoIn)
        \/ \E q \in Requests("verify", RaceUsers) : Start(r, q, NoIn)
        \/ Resume(r, "verify_write", NoIn)
        \/ \E q \in Requests("validate", RaceUsers) : Start(r, q, NoIn)
        \/ Resume(r, "validate_session", NoIn)
        \/ Resume(r, "validate_write", NoIn)
        \/ \E q \in Requests("logout", RaceUsers) : Start(r, q, NoIn)
        \/ Resume(r, "logout_write", NoIn)
        \/ \E q \in Requests("terminate", RaceUsers) : Start(r, q, NoIn)
        \/ Resume(r, "terminate_write", NoIn)
        \/ \E q \in Requests("heartbeat", RaceUsers) : Start(r, q, NoIn)
        \/ Resume(r, "heartbeat_write", NoIn)
        \/ \E q \in Requests("kill", RaceUsers) : Start(r, q, NoIn)
        \/ Resume(r, "kill_write", NoIn)
        \/ \E q \in Requests("reset", RaceUsers) : Start(r, q, NoIn)
        \/ Resume(r, "reset_sessions", NoIn)
        \/ Resume(r, "reset_write", NoIn)

Spec == Init /\ [][Next]_vars

\* A handler run alone from request to response: LoginAsync ("login"),
\* VerifyDeviceAsync ("verify"), ResendVerificationCodeAsync ("resend"),
\* ValidateSessionAsync ("validate"), LogoutAsync ("logout"),
\* TerminateSessionAsync ("terminate"), UpdateHeartbeatAsync ("touch"),
\* SessionHub.Heartbeat ("heartbeat"), SessionHub.KillSession ("kill"),
\* AdminController.TerminateSession ("admin_terminate"), ResetUserDevice
\* ("reset"), UpdateUser ("update_user"), DeleteUser ("delete_user"),
\* ValidateStreamAccess ("stream"), GetPlaybackData ("playback"),
\* GetEncryptionKey ("key").  U is the set of users the requests name.
Serve(op, U) == \E q \in Requests(op, U), in \in InputsAt(op) : Call(q, in)

\* The seeded database, with the responses of the operations ops kept.
InitWatching(ops) == Seeded /\ watch = ops

\* SpecSeq: every handler that touches a session or a device runs to
\* completion before the next request starts.
SpecSeq ==
    Init /\ [][\/ Serve("login", UserIds)
               \/ Serve("verify", UserIds \cup {NoUser})
               \/ Serve("resend", UserIds)
               \/ Serve("validate", UserIds)
               \/ Serve("logout", UserIds)
               \/ Serve("terminate", UserIds)
               \/ Serve("touch", UserIds)
               \/ Serve("heartbeat", UserIds)
               \/ Serve("kill", UserIds)
               \/ Serve("admin_terminate", UserIds)
               \/ Serve("reset", UserIds)]_vars

\* SpecValidate: session validation, with the events that should make it
\* refuse.
SpecValidate ==
    InitWatching({"validate"})
      /\ [][\/ Serve("login", UserIds)
            \/ Serve("verify", UserIds)
            \/ Serve("validate", UserIds)
            \/ Serve("update_user", UserIds)
            \/ Serve("delete_user", UserIds)]_vars

\* SpecContent: the checks that stand before the content, with the same
\* events.
SpecContent ==
    InitWatching({"stream", "playback"})
      /\ [][\/ Serve("login", UserIds)
            \/ Serve("verify", UserIds)
            \/ Serve("stream", UserIds)
            \/ Serve("playback", UserIds)
            \/ Serve("update_user", UserIds)
            \/ Serve("delete_user", UserIds)]_vars

\* SpecEnd: a user's own ways to end a session.
SpecEnd ==
    InitWatching({"logout"})
      /\ [][\/ Serve("login", UserIds)
            \/ Serve("verify", UserIds)
            \/ Serve("logout", UserIds)
            \/ Serve("terminate", UserIds)]_vars

\* SpecTime: one user's sessions while the clock runs.
SpecTime ==
    InitWatching({"validate", "terminate"})
      /\ [][\/ Serve("login", RaceUsers)
            \/ Serve("verify", RaceUsers)
            \/ Serve("validate", RaceUsers)
            \/ Serve("terminate", RaceUsers)
            \/ Tick]_vars

\* SpecKey: the key endpoint among login and verification.
SpecKey ==
    InitWatching({"key"})
      /\ [][\/ Serve("login", UserIds)
            \/ Serve("verify", UserIds)
            \/ Serve("key", UserIds)]_vars

\* SpecAuth: login and device verification of two users, with accounts
\* being disabled and enabled.
SpecAuth ==
    InitWatching({"login", "verify"})
      /\ [][\/ Serve("login", UserIds)
            \/ Serve("verify", UserIds \cup {NoUser})
            \/ Serve("update_user", UserIds)]_vars

\* SpecCode: one user's verification codes while the clock runs.
SpecCode ==
    InitWatching({"verify"})
      /\ [][\/ Serve("login", RaceUsers)
            \/ Serve("verify", RaceUsers)
            \/ Tick]_vars

\* SpecHub: the channel, one handler at a time: connections come and go,
\* send heartbeats and kill_session commands, while users log in and
\* accounts are deleted.
SpecHub ==
    InitWatching({"connect", "disconnect", "heartbeat", "kill"})
      /\ [][\/ Serve("login", RaceUsers)
            \/ Serve("verify", RaceUsers)
            \/ Serve("delete_user", RaceUsers)
            \/ Serve("connect", RaceUsers)
            \/ Serve("disconnect", RaceUsers)
            \/ Serve("message:heartbeat", RaceUsers)
            \/ Serve("message:kill_session", RaceUsers)]_vars

\* SpecBeat: the heartbeats of one user's connections while the clock runs,
\* logins supersede sessions and the account is deleted.
SpecBeat ==
    InitWatching({"heartbeat"})
      /\ [][\/ Serve("login", RaceUsers)
            \/ Serve("verify", RaceUsers)
            \/ Serve("delete_user", RaceUsers)
            \/ Serve("connect", RaceUsers)
            \/ Serve("message:heartbeat", RaceUsers)
            \/ Tick]_vars

\* SpecStamps: the two handlers that stamp a session, validation and the
\* channel's heartbeat, while the clock runs and sessions end.
SpecStamps ==
    InitWatching({"validate", "heartbeat"})
      /\ [][\/ Serve("login", RaceUsers)
            \/ Serve("verify", RaceUsers)
            \/ Serve("logout", RaceUsers)
            \/ Serve("validate", RaceUsers)
            \/ Serve("heartbeat", RaceUsers)
            \/ Tick]_vars

\* SpecIdle: one user's sessions and heartbeats while the clock runs on.
\* Every handler runs only when a client sends its request; the server has
\* no step of its own, so time passing is all that is bound to happen.
SpecIdle ==
    InitWatching({})
      /\ [][\/ Serve("login", RaceUsers)
            \/ Serve("verify", RaceUsers)
            \/ Serve("heartbeat", RaceUsers)
            \/ Tick]_vars
      /\ WF_vars(Tick)

\* SpecEvents: security events reported on the channel, one handler at a
\* time.
SpecEvents ==
    InitWatching({"event", "connect"})
      /\ [][\/ Serve("login", RaceUsers)
            \/ Serve("verify", RaceUsers)
            \/ Serve("delete_user", RaceUsers)
            \/ Serve("connect", RaceUsers)
            \/ Serve("message:security:event", RaceUsers)]_vars

\* SpecRegistry: the connect and disconnect callbacks of one user's
\* connections, step by step, two at a time.
SpecRegistry ==
    InitWatching({})
      /\ [][\/ Serve("login", RaceUsers)
            \/ Serve("verify", RaceUsers)
            \/ \E r \in Slots :
                  \/ \E q \in Requests("connect", RaceUsers) : Start(r, q, NoIn)
                  \/ Resume(r, "connect_write", NoIn)
                  \/ \E q \in Requests("disconnect", RaceUsers) : Start(r, q, NoIn)
                  \/ Resume(r, "disconnect_remove", NoIn)]_vars

\* SpecKilled: the heartbeats of one user's sessions, alone and step by step
\* two at a time, among the handlers that end a session: logout and
\* kill_session step by step, login, verification and reset-device each in
\* one piece.
SpecKilled ==
    InitWatching({"heartbeat"})
      /\ [][\/ Serve("login", RaceUsers)
            \/ Serve("verify", RaceUsers)
            \/ Serve("reset", RaceUsers)
            \/ Serve("heartbeat", RaceUsers)
            \/ \E r \in Slots :
                  \/ \E q \in Requests("heartbeat", RaceUsers) : Start(r, q, NoIn)
                  \/ Resume(r, "heartbeat_write", NoIn)
                  \/ \E q \in Requests("logout", RaceUsers) : Start(r, q, NoIn)
                  \/ Resume(r, "logout_write", NoIn)
                  \/ \E q \in Requests("kill", RaceUsers) : Start(r, q, NoIn)
                  \/ Resume(r, "kill_write", NoIn)]_vars

\* SpecSeverity: the classifier applied to one event type under one culture.
\* The event types a client may send: each name as the web client sends it,
\* in capitals, with a capital initial and with every other letter capital;
\* and the empty text.
EventTypes ==
    LET UpperChar(ch) ==
            IF \E k \in 1..26 : Letters.lower[k] = ch
            THEN Letters.upper[CHOOSE k \in 1..26 : Letters.lower[k] = ch]
            ELSE ch
        Capitals(text) == [k \in 1..Len(text) |-> UpperChar(text[k])]
        Initial(text) ==
            [k \in 1..Len(text) |-> IF k = 1 THEN UpperChar(text[k]) ELSE text[k]]
        Alternate(text) ==
            [k \in 1..Len(text) |-> IF k % 2 = 0 THEN UpperChar(text[k]) ELSE text[k]]
        names == {EventText[f] : f \in DOMAIN EventText}
    IN  {<<>>} \cup names \cup {Capitals(n) : n \in names}
               \cup {Initial(n) : n \in names} \cup {Alternate(n) : n \in names}

InitSeverity ==
    /\ users = [u \in UserIds |-> [isActive |-> TRUE]]
    /\ devices = NoRows
    /\ sessions = NoRows
    /\ nextDid = 1
    /\ nextSid = 1
    /\ now = 0
    /\ ticks = 0
    /\ events = <<>>
    /\ hub = [registry |-> [u \in UserIds |-> Null], conns |-> <<>>]
    /\ client = ClientStart
    /\ watch = {"severity"}
    /\ \E e \in EventTypes, c \in Cultures :
          req = [r \in AllSlots |->
                    IF r = 0
                    THEN [IdleReq EXCEPT !.op = "severity", !.pc = "severity",
                                         !.event = e, !.culture = c]
                    ELSE IdleReq]

\* Line 102: Severity = DetermineSeverity(message.Type).
Severity ==
    /\ req[0].pc = "severity"
    /\ req' = [req EXCEPT ![0] = [@ EXCEPT !.pc = "done",
                                           !.res = DetermineSeverity(req[0].culture,
                                                                     req[0].event)]]
    /\ UNCHANGED <<users, devices, sessions, nextDid, nextSid, now, ticks, watch,
                   events, hub, client>>

SpecSeverity == InitSeverity /\ [][Severity]_vars

\* The store action op runs to its end on some answer of the server; the
\* session manager creates a socket only while MaxSockets allows another.
StoreAction(op) ==
    \E resp \in Answers(op) :
        LET out == Acted(client, op, resp)
        IN  /\ Len(out.c.sockets) <= MaxSockets
            /\ client' = [out.c EXCEPT !.last = [op |-> op, resp |-> resp,
                                                 ret |-> out.ret,
                                                 was |-> client.store]]
            /\ UNCHANGED <<users, devices, sessions, nextDid, nextSid, now, ticks,
                           req, watch, events, hub>>

\* What happened last was an event of socket i, not a store action.
SocketEvent(c, i) ==
    [c EXCEPT !.last = [op |-> "socket", resp |-> "-", ret |-> "-", was |-> c.store]]

\* The transport of a socket comes up and its 'connect' listener runs
\* (sessionManager.ts, lines 48-53): a socket on its way has its listeners,
\* whether or not this.socket still refers to it.
SocketConnected ==
    \E i \in DOMAIN client.sockets :
        /\ client.sockets[i].state = "connecting"
        /\ client' = SocketEvent(startHeartbeat([client EXCEPT
                                     !.sockets[i].state = "connected"]), i)
        /\ UNCHANGED <<users, devices, sessions, nextDid, nextSid, now, ticks,
                       req, watch, events, hub>>

\* The transport of a connected socket is lost and its 'disconnect' listener
\* runs (lines 55-59); with reconnection: true (line 33) the socket tries
\* again.
SocketDropped ==
    \E i \in DOMAIN client.sockets :
        /\ client.sockets[i].state = "connected"
        /\ client' = SocketEvent(stopHeartbeat([client EXCEPT
                                     !.sockets[i].state = "connecting"]), i)
        /\ UNCHANGED <<users, devices, sessions, nextDid, nextSid, now, ticks,
                       req, watch, events, hub>>

\* The server sends session:killed or session:another_login on a connected
\* socket and the listener of lines 71-74 or 83-86 runs.
SocketKilled ==
    \E i \in DOMAIN client.sockets :
        /\ client.sockets[i].state = "connected"
        /\ client.sockets[i].listeners
        /\ client' = SocketEvent(handleSessionKilled(client), i)
        /\ UNCHANGED <<users, devices, sessions, nextDid, nextSid, now, ticks,
                       req, watch, events, hub>>

\* The web client of one tab against every answer the server may give and
\* every event its sockets may deliver.
SpecClient ==
    InitWatching({}) /\ [][\/ StoreAction("login")
                           \/ StoreAction("verifyDevice")
                           \/ StoreAction("logout")
                           \/ StoreAction("checkSession")
                           \/ StoreAction("reload")
                           \/ SocketConnected
                           \/ SocketDropped
                           \/ SocketKilled]_vars

(******************************* properties *******************************)
\* The response in the slot of the sequential specifications.
Last == req[0]

Answered(op) == Last.op = op /\ Last.pc = "done"

\* The sessions as they were when the answered request arrived.
Before == Last.pre[1]

\* The devices as they were when the answered request arrived.
DevicesBefore == Last.preDev[1]

\* The security events and the channel's registry and connections as they
\* were when the answered request arrived.
Was == Last.was[1]

\* The device of user u among the rows of a Devices table.
DeviceAmong(rows, u) == DeviceOf([devices |-> rows], u)

\* The request was a login that passed lines 29 and 34: the user exists, the
\* password matches, the account is enabled.
LoginAccepted ==
    /\ Answered("login")
    /\ Last.pwOk
    /\ Last.u \in DOMAIN users
    /\ users[Last.u].isActive

Challenge(rec) ==
    /\ rec.res = "challenge"
    /\ LoginResponse(rec).requiresDeviceVerification
    /\ LoginResponse(rec).tempToken # Null
    /\ LoginResponse(rec).token = Null
    /\ LoginResponse(rec).sessionId = Null

\* A six-digit decimal text.
SixDigits(code) == Len(code) = 6 /\ \A i \in 1..6 : code[i] \in 0..9

\* C1: for every user at most one Session row has isActive = true in every
\* reachable state, also while two runs of createSession for the same user
\* interleave their read of the active sessions and their write.
C1_OneActiveSessionUnderRace ==
    \A u \in UserIds : Cardinality(ExistingSessions(Tables, u)) <= 1

\* C2: when every operation runs to completion before the next starts, no
\* two distinct active Session rows belong to the same user, after any
\* sequence of login, verify-device, validate, logout, terminate, hub
\* heartbeat, admin kill_session, admin REST terminate and admin
\* reset-device.
C2_OneActiveSessionPerUser ==
    \A a, b \in DOMAIN sessions :
        (sessions[a].isActive /\ sessions[b].isActive
            /\ sessions[a].userId = sessions[b].userId) => a = b

\* A second login has superseded a user's earlier session.
C2_Superseded ==
    \E a, b \in DOMAIN sessions :
        /\ a # b
        /\ sessions[a].userId = sessions[b].userId
        /\ ~sessions[a].isActive
        /\ sessions[a].terminationReason = Some("New login from same device")
        /\ sessions[b].isActive

\* C3: in every reachable state every Device row has verified = true exactly
\* when its verification code is null, after any sequence of login,
\* verify-device and resendCode.
C3_VerifiedIffCodeNull ==
    \A d \in DOMAIN devices : devices[d].verified <=> (devices[d].code = Null)

\* C4: Terminated is terminal: a Session row that has isActive = false and
\* still exists after a step has isActive = false after it, whatever
\* handlers are in flight and whichever of them takes the step.
C4_TerminatedIsTerminal ==
    [][\A s \in DOMAIN sessions :
          (~sessions[s].isActive /\ s \in DOMAIN sessions') => ~sessions'[s].isActive]_vars

\* A handler that read a session while it was active is about to save it
\* after another handler has terminated it.
C4_StaleWriterPending ==
    \E r \in Slots, s \in DOMAIN sessions :
        /\ req[r].pc \in {"heartbeat_write", "validate_write"}
        /\ s \in DOMAIN req[r].sess
        /\ req[r].sess[s].isActive
        /\ ~sessions[s].isActive

\* C5: terminate(sessionId, reason) on a session that is already inactive is
\* a no-op: isActive, terminationReason and terminatedAt of the row are what
\* they were before the call; and terminate never answers with an error.
C5_TerminateIdempotent ==
    Answered("terminate") =>
        /\ Last.res = "ok"
        /\ \A s \in DOMAIN Before :
              ~Before[s].isActive =>
                  /\ sessions[s].isActive = Before[s].isActive
                  /\ sessions[s].terminationReason = Before[s].terminationReason
                  /\ sessions[s].terminatedAt = Before[s].terminatedAt

\* What logout(userId, sessionId) leaves behind when it records reason: the
\* session named, if userId owns it, deactivated with that reason; every
\* other row as it was.
LogoutLeaves(reason) ==
    Answered("logout") =>
        \A s \in DOMAIN Before :
            sessions[s] = IF s = Last.s /\ Before[s].userId = Last.u
                          THEN Deactivated(Before[s], reason, Last.at)
                          ELSE Before[s]

\* C6, as amended: logout(userId, sessionId) deactivates the session with
\* reason "User logout" only when userId owns it, and leaves every other
\* row, the sessions of other users among them, completely unchanged.
C6_LogoutScoped == LogoutLeaves("User logout")

\* C6, as stated: the same with the reason "user logout".
C6_LogoutScopedAsStated == LogoutLeaves("user logout")

\* A user has tried to log out another user's active session.
C6_ForeignLogout ==
    /\ Answered("logout")
    /\ Last.s \in DOMAIN sessions
    /\ sessions[Last.s].userId # Last.u
    /\ sessions[Last.s].isActive

\* The conditions under which validate(u, s, h) must refuse.
UserUnfit(u) == u \notin DOMAIN users \/ ~users[u].isActive
DeviceUnfit(u, h) ==
    \/ ~\E d \in DOMAIN devices : devices[d].userId = u
    \/ \E d \in DOMAIN devices :
          devices[d].userId = u /\ (~devices[d].verified \/ devices[d].hash # h)
SessionUnfit(u, s) ==
    s \notin DOMAIN sessions \/ sessions[s].userId # u \/ ~sessions[s].isActive

\* C7: validate(userId, sessionId, fingerprintHash) never returns valid when
\* the user is missing or inactive, when the user's Device is missing,
\* unverified or of another fingerprint hash, or when the session does not
\* exist, belongs to another user or is inactive.
C7_ValidateRefuses ==
    (Answered("validate")
        /\ (UserUnfit(Last.u) \/ DeviceUnfit(Last.u, Last.h) \/ SessionUnfit(Last.u, Last.s)))
    => Last.res # "200"

\* validate has refused a disabled user whose device and session are in
\* order.
C7_DisabledUserRefused ==
    /\ Answered("validate")
    /\ Last.u \in DOMAIN users
    /\ ~users[Last.u].isActive
    /\ ~DeviceUnfit(Last.u, Last.h)
    /\ ~SessionUnfit(Last.u, Last.s)
    /\ Last.res = "401 SESSION_EXPIRED"

\* C8: validate returns invalid at every time now >= expiresAt of the
\* session, the instant now = expiresAt included.
C8_InvalidFromExpiry ==
    (Answered("validate") /\ Last.s \in DOMAIN sessions
        /\ Last.at >= sessions[Last.s].expiresAt)
    => Last.res # "200"

\* C9: GET /auth/session with a deviceHash that differs from the stored
\* fingerprint answers 401 with code DEVICE_MISMATCH, and leaves every
\* Session row as it was.
C9_DeviceMismatchAnswer ==
    (Answered("validate")
        /\ ~UserUnfit(Last.u)
        /\ \E d \in DOMAIN devices : devices[d].userId = Last.u /\ devices[d].hash # Last.h)
    => (Last.res = "401 DEVICE_MISMATCH" /\ sessions = Before)

\* ValidateSessionAsync(u, s, h) would return Valid at time t.
WouldValidate(u, s, h, t) ==
    Run(Tables, Request("validate", u, s, h), t, NoIn).rec.res = ValidateAnswer(TRUE)

\* C10: the stream endpoints (manifest, key, segment) and the playback-data
\* endpoint grant access only where validate(userId, sessionId, deviceHash)
\* would return valid.
C10_ContentOnlyWhereValid ==
    ((Answered("stream") \/ Answered("playback")) /\ Last.res = "200")
    => WouldValidate(Last.u, Last.s, Last.h, Last.at)

\* C11: deriveKey is a function of (videoId, userId, sessionId, secret): the
\* key endpoint answers with that function of the token's claims, two calls
\* with the same arguments give the same key, and two calls that differ only
\* in the session id give different keys, so the key under a user's earlier
\* session differs from the key under every session minted later.
C11_KeySessionBound ==
    /\ (Answered("key") /\ Last.res = "200") =>
            Last.key = Some(DeriveKey(Last.video, Last.u, Last.s, JwtSecretKey))
    /\ \A v \in VideoIds, u \in UserIds, k \in Secrets, s1 \in Issued, s2 \in Issued :
            (DeriveKey(v, u, s1, k) = DeriveKey(v, u, s2, k)) <=> (s1 = s2)

\* The key endpoint has served a user's second session while the first one,
\* superseded, is still on record.
C11_KeyOfSecondSession ==
    /\ Answered("key")
    /\ Last.res = "200"
    /\ \E old \in DOMAIN sessions :
          /\ old # Last.s
          /\ sessions[old].userId = Last.u
          /\ ~sessions[old].isActive
          /\ Last.key # Some(DeriveKey(Last.video, Last.u, old, JwtSecretKey))

\* C12: a login with correct credentials by an enabled user who has no
\* Device adds exactly one Device row, unverified, with the supplied hash, a
\* six-digit code and an expiry 15 minutes ahead, leaves every other row and
\* every Session as it was, and answers with the challenge: temp token set,
\* token and session id null.
C12_FirstLoginCreatesDevice ==
    (LoginAccepted /\ DeviceAmong(DevicesBefore, Last.u) = Null) =>
        /\ Challenge(Last)
        /\ sessions = Before
        /\ \E d \in DOMAIN devices :
              /\ DOMAIN devices = DOMAIN DevicesBefore \cup {d}
              /\ d \notin DOMAIN DevicesBefore
              /\ \A x \in DOMAIN DevicesBefore : devices[x] = DevicesBefore[x]
              /\ devices[d].userId = Last.u
              /\ ~devices[d].verified
              /\ devices[d].hash = Last.h
              /\ devices[d].code # Null
              /\ SixDigits(devices[d].code[1])
              /\ devices[d].codeExpiry = Some(Last.at + 15)

\* A first login has been answered while another user already has a device
\* and a session.
C12_FirstLoginAnswered ==
    /\ LoginAccepted
    /\ DeviceAmong(DevicesBefore, Last.u) = Null
    /\ DevicesBefore # NoRows
    /\ Before # NoRows

\* The login found a Device of the user whose hash is not the request's.
LoginFromOtherDevice ==
    /\ LoginAccepted
    /\ DeviceAmong(DevicesBefore, Last.u) # Null
    /\ DeviceAmong(DevicesBefore, Last.u)[1].hash # Last.h

\* C13: a login whose hash differs from the stored one overwrites the hash
\* with the supplied one, clears verified, stores a fresh six-digit code that
\* expires 15 minutes later and answers with the challenge; no Device row is
\* added or removed, no other Device changes, and the Sessions table is
\* exactly as before: no row created, none changed.
C13_OtherDeviceRearms ==
    LoginFromOtherDevice =>
        LET old == DeviceAmong(DevicesBefore, Last.u)[1] IN
        /\ Challenge(Last)
        /\ sessions = Before
        /\ DOMAIN devices = DOMAIN DevicesBefore
        /\ \A x \in DOMAIN devices \ {old.id} : devices[x] = DevicesBefore[x]
        /\ devices[old.id].userId = Last.u
        /\ devices[old.id].hash = Last.h
        /\ ~devices[old.id].verified
        /\ devices[old.id].code # Null
        /\ SixDigits(devices[old.id].code[1])
        /\ devices[old.id].codeExpiry = Some(Last.at + 15)

\* A login from another fingerprint has been answered while the user has an
\* active session on the verified device.
C13_RearmedWithLiveSession ==
    /\ LoginFromOtherDevice
    /\ DeviceAmong(DevicesBefore, Last.u)[1].verified
    /\ \E x \in DOMAIN Before : Before[x].userId = Last.u /\ Before[x].isActive

\* The request was a verify-device whose temp token names a user with a
\* Device: the checks of lines 128-136 passed.
VerifyReachedCode ==
    /\ Answered("verify")
    /\ Last.u \in DOMAIN users
    /\ DeviceAmong(DevicesBefore, Last.u) # Null

\* The supplied code is the stored one and the stored expiry has not passed.
CodeAccepted ==
    /\ VerifyReachedCode
    /\ DeviceAmong(DevicesBefore, Last.u)[1].code = Last.code
    /\ ~LiftedLt(DeviceAmong(DevicesBefore, Last.u)[1].codeExpiry, Last.at)

\* C14: verify-device with a valid temp token and the stored code before its
\* expiry leaves the Device verified, verifiedAt stamped with the time of the
\* call, code and expiry cleared, the hash replaced by the hash of the
\* verification request; exactly one Session row is added, active, owned by
\* the user and bound to the device, no other row becomes active, and the
\* response carries the token and the session id with
\* requiresDeviceVerification false.
C14_VerifyCreatesSession ==
    CodeAccepted =>
        LET old == DeviceAmong(DevicesBefore, Last.u)[1]
            dev == devices[old.id]
        IN  /\ DOMAIN devices = DOMAIN DevicesBefore
            /\ dev.verified
            /\ dev.verifiedAt = Some(Last.at)
            /\ dev.code = Null
            /\ dev.codeExpiry = Null
            /\ dev.hash = Last.h
            /\ Last.res = "200"
            /\ Last.sid \notin DOMAIN Before
            /\ DOMAIN sessions = DOMAIN Before \cup {Last.sid}
            /\ sessions[Last.sid].isActive
            /\ sessions[Last.sid].userId = Last.u
            /\ sessions[Last.sid].deviceId = old.id
            /\ \A x \in DOMAIN Before : sessions[x].isActive => Before[x].isActive
            /\ LoginResponse(Last).token # Null
            /\ LoginResponse(Last).sessionId = Some(Last.sid)
            /\ ~LoginResponse(Last).requiresDeviceVerification

\* A verification has succeeded some time after the login, with a six-digit
\* code and a hash that is not the one the login stored.
C14_VerifiedFromOtherHash ==
    /\ CodeAccepted
    /\ Last.at > 0
    /\ Last.code # Null
    /\ DeviceAmong(DevicesBefore, Last.u)[1].hash # Last.h

\* C15: verify-device answers "Invalid verification code" when the supplied
\* code is not the stored one, and "Verification code has expired" when the
\* code is the stored one and the stored expiry lies before the time of the
\* call; in both cases every Device row and every Session row is as it was
\* before the call.
C15_VerifyRefusals ==
    VerifyReachedCode =>
        LET old == DeviceAmong(DevicesBefore, Last.u)[1] IN
        /\ old.code # Last.code =>
              /\ Last.res = "401 Invalid verification code"
              /\ devices = DevicesBefore
              /\ sessions = Before
        /\ (old.code = Last.code /\ old.codeExpiry # Null
                /\ old.codeExpiry[1] < Last.at) =>
              /\ Last.res = "401 Verification code has expired"
              /\ devices = DevicesBefore
              /\ sessions = Before

\* The stored code was supplied after its expiry and refused.
C15_ExpiredCodeRefused ==
    /\ VerifyReachedCode
    /\ Last.code # Null
    /\ DeviceAmong(DevicesBefore, Last.u)[1].code = Last.code
    /\ DeviceAmong(DevicesBefore, Last.u)[1].codeExpiry[1] < Last.at
    /\ Last.res = "401 Verification code has expired"

\* A login or a verify-device has been answered with a new session.
SessionCreated ==
    /\ Answered("login") \/ Answered("verify")
    /\ Last.res = "200"

\* createSession has put the new active row next to the rows that were
\* there, each row of the user that was active now inactive with the given
\* reason and the time of the call as termination time, every other row
\* untouched.
Supersedes(reason) ==
    SessionCreated =>
        /\ DOMAIN sessions = DOMAIN Before \cup {Last.sid}
        /\ Last.sid \notin DOMAIN Before
        /\ sessions[Last.sid].isActive
        /\ sessions[Last.sid].userId = Last.u
        /\ \A x \in DOMAIN Before :
              sessions[x] =
                 IF Before[x].userId = Last.u /\ Before[x].isActive
                 THEN [Before[x] EXCEPT !.isActive = FALSE,
                                        !.terminationReason = Some(reason),
                                        !.terminatedAt = Some(Last.at)]
                 ELSE Before[x]

Inserts(r, s) ==
    /\ s \in DOMAIN sessions' \ DOMAIN sessions
    /\ req[r].pc = "create_write"
    /\ req'[r] # req[r]
    /\ sessions'[s].userId = req[r].u

\* The user's Device exists, is verified and carries the hash h.
DeviceTrusted(u, h) ==
    /\ DeviceOf(Tables, u) # Null
    /\ DeviceOf(Tables, u)[1].verified
    /\ DeviceOf(Tables, u)[1].hash = h

\* C17: every step that adds a Session row is the INSERT of a login or a
\* verify-device that got past the credential, account and device checks,
\* and it is taken in a state where the user's Device exists, is verified
\* and has the fingerprint hash the creating request supplied.
C17_SessionOnlyOnTrustedDevice ==
    [][\A s \in DOMAIN sessions' \ DOMAIN sessions :
          \E r \in AllSlots : Inserts(r, s) /\ DeviceTrusted(req[r].u, req[r].h)]_vars

\* C18: in every reachable state no two Device rows have the same user, also
\* while two first logins of one user have both read that the user has no
\* Device and both go on to insert one.
C18_OneDevicePerUser ==
    \A d1 \in DOMAIN devices, d2 \in DOMAIN devices :
        devices[d1].userId = devices[d2].userId => d1 = d2

\* Of two first logins that both found no Device, one has inserted its row
\* and the other is about to insert.
C18_SecondInsertPending ==
    \E r \in Slots :
        /\ req[r].pc = "login_insert"
        /\ \E d \in DOMAIN devices : devices[d].userId = req[r].u

\* The reset-device handler in slot r saves its changes in this step and
\* answers 200.
ResetCompletes(r) ==
    /\ req[r].op = "reset"
    /\ req[r].pc = "reset_write"
    /\ req'[r] # req[r]
    /\ Reset_Write(Tables, req[r]).rec.res = "200"

\* C19: a Device row disappears only in the save of a reset-device for its
\* user, and when that save is done the user has no Device row, so that the
\* next login inserts one and answers with the challenge, and no Session row
\* of the user is active.
C19_ResetClearsDeviceAndSessions ==
    [][\A d \in DOMAIN devices \ DOMAIN devices' :
          \E r \in AllSlots :
             /\ ResetCompletes(r)
             /\ req[r].u = devices[d].userId
             /\ \A x \in DOMAIN devices' : devices'[x].userId # req[r].u
             /\ \A x \in DOMAIN sessions' :
                   sessions'[x].userId = req[r].u => ~sessions'[x].isActive]_vars

\* C20: the classifier gives Critical for screen_capture_attempted and
\* debugger_detected, Warning for devtools_opened, devtools_console_detected,
\* screenshot_attempt and print_screen_attempt, Info for every other text,
\* whatever the case of the letters of the event type and whatever else the
\* server's state holds.
C20_SeverityByTypeIgnoringCase ==
    Answered("severity") =>
        LET folded == [k \in 1..Len(Last.event) |->
                          IF \E i \in 1..26 : Letters.upper[i] = Last.event[k]
                          THEN Letters.lower[CHOOSE i \in 1..26 :
                                                Letters.upper[i] = Last.event[k]]
                          ELSE Last.event[k]]
        IN  Last.res =
               IF folded \in {EventText.ScreenCaptureAttempted, EventText.DebuggerDetected}
               THEN "Critical"
               ELSE IF folded \in {EventText.DevtoolsOpened,
                                   EventText.DevtoolsConsoleDetected,
                                   EventText.ScreenshotAttempt,
                                   EventText.PrintScreenAttempt}
               THEN "Warning"
               ELSE "Info"

\* C21: every security-event message received on the channel (on a
\* connection whose token carries the user id and the session id) appends
\* exactly one SecurityEvent row, with the severity the classifier gives its
\* type, whether or not the critical alert that follows the save is
\* delivered, and nothing is pushed to any client.
C21_EveryEventPersisted ==
    (Answered("event") /\ Last.s # 0)
    => /\ Len(events) = Len(Was.events) + 1
       /\ SubSeq(events, 1, Len(Was.events)) = Was.events
       /\ events[Len(events)].userId = Last.u
       /\ events[Len(events)].eventType = Last.event
       /\ events[Len(events)].severity = DetermineSeverity(Last.culture, Last.event)
       /\ Last.sent = <<>>

\* C22: a heartbeat message from a connection with a session id gets exactly
\* one reply, pushed to the caller: heartbeat:ack, with lastHeartbeat of the
\* session set to the time of the message and nothing else changed, when the
\* session exists and is active; session:killed, with every Session row as
\* it was, otherwise.
C22_HeartbeatReply ==
    (Answered("heartbeat") /\ Last.s # 0)
    => LET live == Last.s \in DOMAIN Before /\ Before[Last.s].isActive IN
       /\ Len(Last.sent) = 1
       /\ Last.sent[1].to = Last.conn
       /\ live => /\ Last.sent[1].name = "heartbeat:ack"
                  /\ sessions = [Before EXCEPT ![Last.s].lastHeartbeat = Last.at]
       /\ ~live => /\ Last.sent[1].name = "session:killed"
                   /\ sessions = Before

\* A heartbeat was acknowledged and moved lastHeartbeat forward.
C22_HeartbeatRefreshed ==
    /\ Answered("heartbeat")
    /\ Last.sent = <<[to |-> Last.conn, name |-> "heartbeat:ack", reason |-> "-"]>>
    /\ Before[Last.s].lastHeartbeat < Last.at
    /\ sessions[Last.s].lastHeartbeat = Last.at

\* C23: a successful validate sets lastHeartbeat of the session and
\* lastSeenAt of the user's Device to the time of the call and changes
\* nothing else in the Session and Device rows; neither validate nor a
\* heartbeat changes expiresAt or isActive of any session.
C23_StampsOnly ==
    /\ (Answered("validate") /\ Last.res = "200")
       => /\ sessions = [Before EXCEPT ![Last.s].lastHeartbeat = Last.at]
          /\ \E d \in DOMAIN DevicesBefore :
                /\ DevicesBefore[d].userId = Last.u
                /\ devices = [DevicesBefore EXCEPT ![d].lastSeenAt = Last.at]
    /\ (Answered("validate") \/ Answered("heartbeat"))
       => /\ DOMAIN sessions = DOMAIN Before
          /\ \A s \in DOMAIN Before :
                /\ sessions[s].expiresAt = Before[s].expiresAt
                /\ sessions[s].isActive = Before[s].isActive

\* A validate succeeded after the clock had moved and refreshed both stamps.
C23_Stamped ==
    /\ Answered("validate")
    /\ Last.res = "200"
    /\ Before[Last.s].lastHeartbeat < Last.at
    /\ sessions[Last.s].lastHeartbeat = Last.at
    /\ sessions[Last.s].expiresAt < Last.at + SessionTtl
    /\ \E d \in DOMAIN devices :
          devices[d].userId = Last.u /\ devices[d].lastSeenAt = Last.at

\* C24: a kill_session command from a caller whose role claim is not Admin,
\* or who has no role claim, changes no Session row, leaves the registry as
\* it was and pushes no message.
C24_KillNeedsAdmin ==
    (Answered("kill") /\ Last.role # "Admin")
    => /\ sessions = Before
       /\ hub.registry = Was.hub.registry
       /\ Last.sent = <<>>

\* A student's kill_session named an active session whose owner is in the
\* registry.
C24_StudentKillIgnored ==
    /\ Answered("kill")
    /\ Last.role = "Student"
    /\ Last.s \in DOMAIN sessions
    /\ sessions[Last.s].isActive
    /\ hub.registry[sessions[Last.s].userId] # Null

\* C25: when an Admin issues kill_session for a session whose user has a
\* registry entry, the Session row becomes inactive with the reason the
\* admin supplied, and the one message pushed is session:killed, with that
\* reason, to the connection of that entry.
C25_AdminKillNotifies ==
    (Answered("kill") /\ Last.role = "Admin" /\ Last.s \in DOMAIN Before
        /\ Was.hub.registry[Before[Last.s].userId] # Null)
    => /\ Last.s \in DOMAIN sessions
       /\ ~sessions[Last.s].isActive
       /\ sessions[Last.s].terminationReason = Some(Last.reason)
       /\ Last.sent = <<[to |-> Was.hub.registry[Before[Last.s].userId][1],
                         name |-> "session:killed", reason |-> Last.reason]>>

\* An administrator killed an active session from a connection other than
\* the one the registry holds for the owner.
C25_KilledFromOtherConnection ==
    /\ Answered("kill")
    /\ Last.role = "Admin"
    /\ Last.s \in DOMAIN Before
    /\ Before[Last.s].isActive
    /\ Was.hub.registry[Before[Last.s].userId] # Null
    /\ Was.hub.registry[Before[Last.s].userId] # Some(Last.conn)
    /\ ~sessions[Last.s].isActive

\* C26: the first step of a connect leaves the registry alone and, exactly
\* when the registry maps the user to another connection, pushes
\* session:another_login to that connection; the step that completes the
\* connect maps the user to the connecting connection and changes no other
\* entry; neither step changes a Session row.
C26_ConnectNotifiesThenRegisters ==
    [][\A r \in Slots :
         /\ (req[r].pc = "idle" /\ req'[r].pc = "connect_write")
            => LET entry == hub.registry[req'[r].u] IN
               /\ hub'.registry = hub.registry
               /\ sessions' = sessions
               /\ req'[r].sent =
                     IF entry # Null /\ entry # Some(req'[r].conn)
                     THEN <<[to |-> entry[1], name |-> "session:another_login",
                             reason |-> "-"]>>
                     ELSE <<>>
         /\ (req[r].pc = "connect_write" /\ req'[r] # req[r])
            => /\ hub'.registry = [hub.registry EXCEPT ![req[r].u] = Some(req[r].conn)]
               /\ sessions' = sessions]_vars

\* A connect has pushed the notice to the connection the registry still
\* holds, and has not yet written its own entry.
C26_NoticeBeforeOverwrite ==
    \E r \in Slots :
        /\ req[r].pc = "connect_write"
        /\ Len(req[r].sent) = 1
        /\ req[r].sent[1].name = "session:another_login"
        /\ hub.registry[req[r].u] = Some(req[r].sent[1].to)
        /\ req[r].sent[1].to # req[r].conn

\* C27: under every interleaving of the connects and disconnects of one
\* user, a step of the disconnect callback of a connection changes the
\* registry only when the user's entry points at that connection: it never
\* removes or alters the entry of a newer connection.
C27_StaleDisconnectHarmless ==
    [][\A r \in Slots :
         (req[r].op = "disconnect" /\ req[r].pc = "disconnect_remove"
             /\ req'[r] # req[r]
             /\ hub.registry[req[r].u] # Some(req[r].conn))
         => hub'.registry = hub.registry]_vars

\* C28: a connect or a security-event message whose bearer credentials lack
\* the user id, the session id or the role changes no Session row, no
\* SecurityEvent row and no registry entry.
C28_IncompleteCredentialsChangeNothing ==
    ((Answered("event") \/ Answered("connect"))
        /\ (Last.u = NoUser \/ Last.s = 0 \/ Last.role = "-"))
    => /\ sessions = Before
       /\ events = Was.events
       /\ hub.registry = Was.hub.registry

\* C29: a validate that reaches the session check for an active session
\* whose expiresAt has passed deactivates that session.
C29_ExpiredDeactivatedAtValidation ==
    (Answered("validate") /\ ~UserUnfit(Last.u) /\ ~DeviceUnfit(Last.u, Last.h)
        /\ Last.s \in DOMAIN Before
        /\ Before[Last.s].userId = Last.u
        /\ Before[Last.s].isActive
        /\ Before[Last.s].expiresAt < Last.at)
    => ~sessions[Last.s].isActive

\* C30: a session is terminated on heartbeat timeout: no session stays
\* active for ever while its last heartbeat lies a minute or more back
\* (twelve of the client's 5-second heartbeats missed); when the heartbeats
\* stop, the session is eventually inactive.
C30_TerminatedOnHeartbeatTimeout ==
    \A s \in 1..MaxSessions :
        []<>~(/\ s \in DOMAIN sessions
              /\ sessions[s].isActive
              /\ now > sessions[s].lastHeartbeat)

\* C31: a session is terminated on a security violation: once a security
\* event classified Critical is on record for a session, that session is no
\* longer active.
C31_TerminatedOnCriticalEvent ==
    \A k \in 1..Len(events) :
        (events[k].severity = "Critical" /\ events[k].sessionId # Null
            /\ events[k].sessionId[1] \in DOMAIN sessions)
        => ~sessions[events[k].sessionId[1]].isActive

\* C32: a response of the server that carries the code DEVICE_MISMATCH sends
\* the web client to the device-verification screen, one that carries
\* SESSION_EXPIRED sends it to the login screen.
C32_CodeDecidesRecoveryScreen ==
    Answered("playback")
    => LET resp == HttpResponse(Last.res)
           to == ResponseInterceptor(resp).location
       IN  /\ resp.code = Some("DEVICE_MISMATCH") => to = Some("/device-verify")
           /\ resp.code = Some("SESSION_EXPIRED")
                 => to \in {Some("/login"), Some("/login?expired=true")}

\* C33: verify-device succeeds only when the Device holds a pending
\* (non-null) verification code that equals the supplied code and whose
\* expiry has not passed; a request against a verified Device, whose code
\* and expiry are null, never succeeds, never overwrites the fingerprint
\* hash and never creates a Session.
C33_VerifyNeedsPendingCode ==
    Answered("verify")
    => LET old == DeviceAmong(DevicesBefore, Last.u) IN
       /\ Last.res = "200"
             => /\ old # Null
                /\ old[1].code # Null
                /\ old[1].code = Last.code
                /\ old[1].codeExpiry # Null
                /\ old[1].codeExpiry[1] >= Last.at
       /\ (old # Null /\ old[1].verified)
             => /\ Last.res # "200"
                /\ devices = DevicesBefore
                /\ sessions = Before

\* C34: termination is observed on the channel at once: a heartbeat that
\* arrives while the Session row of its session id is inactive, whether a
\* logout, a newer login, an administrator's kill_session or a device reset
\* ended it, is answered in that same step with session:killed to the
\* caller and with nothing else, whatever other handlers are in flight.
C34_HeartbeatAfterTerminationKilled ==
    [][\A r \in AllSlots :
         (/\ req[r].pc \in {"idle", "done"}
          /\ req'[r] # req[r]
          /\ req'[r].op = "heartbeat"
          /\ req'[r].s \in DOMAIN sessions
          /\ ~sessions[req'[r].s].isActive)
         => /\ req'[r].pc = "done"
            /\ req'[r].sent = <<[to |-> req'[r].conn, name |-> "session:killed",
                                 reason |-> "Session expired or invalidated"]>>
            /\ sessions' = sessions]_vars

\* A heartbeat was answered session:killed for a session its user had
\* logged out of, while another heartbeat of that session, accepted before
\* the logout, was still to save its stamp.
C34_KilledLearned ==
    \E r, q \in Slots :
        /\ req[r].op = "heartbeat" /\ req[r].pc = "done"
        /\ req[r].sent = <<[to |-> req[r].conn, name |-> "session:killed",
                            reason |-> "Session expired or invalidated"]>>
        /\ req[r].s \in DOMAIN sessions
        /\ sessions[req[r].s].terminationReason = Some("User logout")
        /\ req[q].pc = "heartbeat_write"
        /\ req[q].s = req[r].s

\* C35: a login from a new fingerprint revokes the old device's trust at
\* once: the step that re-arms a Device with another hash leaves it
\* unverified and changes no Session row, so the old session stays active;
\* and while a Device is unverified no validate of its user succeeds,
\* whichever session id and fingerprint hash the request carries, the old
\* hash included.
C35_RearmRevokesTrust ==
    /\ [](\A u \in UserIds, s \in Issued, h \in Hashes :
             (DeviceOf(Tables, u) # Null /\ ~DeviceOf(Tables, u)[1].verified)
             => ~WouldValidate(u, s, h, now))
    /\ [][\A d \in DOMAIN devices \cap DOMAIN devices' :
             (devices[d].verified /\ devices'[d].hash # devices[d].hash
                 /\ ~devices'[d].verified)
             => sessions' = sessions]_vars

\* A validate that carried the fingerprint of the old device and the id of
\* the old session, still active, was refused after a login from another
\* fingerprint had re-armed the Device.
C35_OldHashRefused ==
    /\ Answered("validate")
    /\ Last.res = "401 SESSION_EXPIRED"
    /\ Last.s \in DOMAIN sessions
    /\ sessions[Last.s].isActive
    /\ sessions[Last.s].userId = Last.u
    /\ DeviceOf(Tables, Last.u) # Null
    /\ ~DeviceOf(Tables, Last.u)[1].verified
    /\ DeviceOf(Tables, Last.u)[1].hash # Last.h
    /\ DeviceOf(Tables, Last.u)[1].id = sessions[Last.s].deviceId

C37_OpenConnectionRegistered ==
    \A c \in DOMAIN hub.conns :
        (hub.conns[c].open /\ hub.conns[c].u # NoUser /\ hub.conns[c].s # 0)
        => hub.registry[hub.conns[c].u] # Null

\* C38: a session:killed notice caused by an administrator's kill_session
\* of session S goes only to a connection that authenticated with session
\* S; at the least, a connection bound to another session of the same user
\* that is still active never receives it.
C38_KillNoticeOnlyToItsSession ==
    Answered("kill")
    => \A k \in 1..Len(Last.sent) :
          Last.sent[k].name = "session:killed"
          => LET bound == hub.conns[Last.sent[k].to].s IN
             \/ bound = Last.s
             \/ ~(bound \in DOMAIN sessions /\ sessions[bound].isActive)

\* C39: the client's session manager owns at most one socket that is open
\* with its listeners attached, the one its socket field refers to, also
\* when connect() is called again while an earlier socket exists but is not
\* yet connected; and once disconnect() has run, at the end of logout() or
\* on a kill notice, the socket field is null and no heartbeat timer is left.
C39_OneSocketWithListeners ==
    /\ \A i \in DOMAIN client.sockets :
           client.sockets[i].listeners /\ client.sockets[i].state # "closed"
               => i = client.socket
    /\ client.last.op = "logout" => client.socket = 0 /\ ~client.heartbeat

\* The client as logout() leaves it: the store in its initial state, the
\* socket field null and no heartbeat timer.
LoggedOut == client.store = initialState /\ client.socket = 0 /\ ~client.heartbeat

\* The store holds no user, token or session id and is not authenticated,
\* and the session manager is disconnected.
NoOneSignedIn ==
    /\ client.store.user = Null /\ client.store.token = Null
    /\ client.store.sessionId = Null /\ ~client.store.isAuthenticated
    /\ client.socket = 0 /\ ~client.heartbeat

\* C40 as stated: logout() always ends with no user, token or session id in
\* the store, isAuthenticated false and the session manager disconnected,
\* whether the server's logout call succeeded or failed, and checkSession()
\* returns true only when the server reported the session valid and has
\* performed that same logout in every other case.
C40_CheckSessionLogsOutOtherwise ==
    /\ client.last.op = "logout" => NoOneSignedIn
    /\ client.last.op = "checkSession" =>
           /\ client.last.ret = "true" => client.last.resp = "valid"
           /\ client.last.ret # "true" => NoOneSignedIn

\* C40, amended: logout() always ends logged out, whether the server's logout
\* call succeeded or failed; checkSession() returns true only when it asked
\* the server and the server reported the session valid; when it asked and
\* the answer was anything else it has performed that same logout and
\* returned false; when the store held no token or was not authenticated it
\* returned false at once and left the store as it was.
C40_CheckSessionLogsOutWhenAsked ==
    /\ client.last.op = "logout" => LoggedOut
    /\ client.last.op = "checkSession" =>
           LET asked == client.last.was.token # Null /\ client.last.was.isAuthenticated
           IN  /\ client.last.ret = "true" => asked /\ client.last.resp = "valid"
               /\ asked /\ client.last.resp # "valid" =>
                      client.last.ret = "false" /\ LoggedOut
               /\ ~asked => client.last.ret = "false" /\ client.store = client.last.was

\* checkSession() got an error instead of an answer while signed in with a
\* socket open, and the logout it performed closed that socket.
C40_LoggedOutOnFailedCheck ==
    /\ client.last.op = "checkSession"
    /\ client.last.resp = "error"
    /\ client.last.was.isAuthenticated
    /\ client.sockets # <<>>
    /\ LoggedOut
====
